---- MODULE Spec2Model ----
(***************************************************************************)
(* Model of the Python IPC bridge of Chromatin-CLI                         *)
(* (source/lib/python-bridge.ts): the persistent PythonBridge class, its   *)
(* line framing over the worker's stdout, and the one-shot pythonCall.     *)
(*                                                                         *)
(* Bytes and characters are modelled by their numeric codes.  A stdout     *)
(* chunk is a sequence of bytes; Buffer.toString() decodes it as UTF-8 on  *)
(* its own, so a multi-byte character cut by a chunk boundary decodes to   *)
(* U+FFFD replacement characters.  JSON.parse is modelled on the JSON      *)
(* texts that can be written with the model's alphabet.                    *)
(***************************************************************************)
EXTENDS Integers, Sequences, FiniteSets, TLC

\* ------------------------------------------------------------------ bounds
MaxCalls == 2       \* calls issued on one bridge instance
MaxWorkers == 2     \* worker processes spawned by one bridge instance
MaxNoise == 1       \* lines written by the workers that answer no request
MaxStream == 5      \* bytes of the stream of the framing specification
MaxOut == 4         \* bytes written by the child of one pythonCall
MaxOver == 2        \* characters by which a long output exceeds TailLimit
MaxErr == 2         \* bytes a worker of the bridge has written to its stderr
MaxHookCalls == 2   \* invocations of usePython().call in one component
MaxMounts == 2      \* worker actions invoked by the views the operator opens
MaxJobs == 2        \* jobs in the list of DownloadJobs
MaxTimers == 5      \* intervals created by DownloadJobs
MaxPage == 2        \* the state variable page of DownloadManager
MaxSelected == 2    \* items toggled into the selection of DownloadManager

\* ------------------------------------------------- alphabet and conversions
\* Codes of the bytes / characters the model uses.  lead,tail are the two
\* bytes 0xC3 0xA9 of the UTF-8 encoding of U+00E9; repl is U+FFFD.
Ch == [nl |-> 10, sp |-> 32, quote |-> 34, x |-> 120, lbrace |-> 123,
       rbrace |-> 125, lead |-> 195, tail |-> 169, eacute |-> 233,
       repl |-> 65533]

Digits == 49..57

Last(s) == s[Len(s)]
Front(s) == SubSeq(s, 1, Len(s) - 1)
Min(a, b) == IF a <= b THEN a ELSE b

\* The sequences of at most n elements of S.
ByteSeqs(S, n) == UNION {[1..k -> S] : k \in 0..n}

\* The least element of a non-empty set of integers.
Least(S) == CHOOSE p \in S : \A q \in S : p <= q

\* Buffer.toString(): UTF-8 decoding of one chunk, each chunk on its own.  A
\* run of one-byte characters is copied; lead,tail decode to U+00E9; a lead
\* without its tail and a tail without its lead decode to U+FFFD.
RECURSIVE BufferToString(_)
BufferToString(bytes) ==
  LET multi == {i \in 1..Len(bytes) : bytes[i] >= 128}
      n == IF multi = {} THEN Len(bytes) ELSE Least(multi) - 1
      rest == SubSeq(bytes, n + 1, Len(bytes))
  IN IF bytes = <<>> THEN <<>>
     ELSE IF n > 0 THEN SubSeq(bytes, 1, n) \o BufferToString(rest)
     ELSE IF Head(bytes) = Ch.lead /\ Len(bytes) >= 2 /\ bytes[2] = Ch.tail
          THEN <<Ch.eacute>> \o BufferToString(SubSeq(bytes, 3, Len(bytes)))
          ELSE <<Ch.repl>> \o BufferToString(Tail(bytes))

\* The UTF-8 encoding of a string: the inverse of the decoding for the
\* characters of the alphabet; U+FFFD is the three bytes EF BF BD.
RECURSIVE UTF8Encode(_)
UTF8Encode(str) ==
  IF str = <<>> THEN <<>>
  ELSE (IF Head(str) = Ch.eacute THEN <<Ch.lead, Ch.tail>>
        ELSE IF Head(str) = Ch.repl THEN <<239, 191, 189>>
        ELSE <<Head(str)>>) \o UTF8Encode(Tail(str))

\* String.prototype.split('\n'): the pieces between newlines; always at
\* least one piece, the last piece is the text after the last newline.
RECURSIVE Split(_)
Split(s) ==
  LET nls == {i \in 1..Len(s) : s[i] = Ch.nl}
  IN IF nls = {} THEN <<s>>
     ELSE <<SubSeq(s, 1, Least(nls) - 1)>>
            \o Split(SubSeq(s, Least(nls) + 1, Len(s)))

\* String.prototype.trim(): leading and trailing white space removed.
IsSpace(c) == c = Ch.sp \/ c = Ch.nl

RECURSIVE TrimLeft(_)
TrimLeft(s) ==
  IF s # <<>> /\ IsSpace(Head(s)) THEN TrimLeft(Tail(s)) ELSE s

RECURSIVE TrimRight(_)
TrimRight(s) ==
  IF s # <<>> /\ IsSpace(Last(s)) THEN TrimRight(Front(s)) ELSE s

Trim(s) == TrimRight(TrimLeft(s))

\* JSON texts over the alphabet: a number written with the digits 1..9, a
\* string without escapes, or the empty object; white space around the value
\* and inside the braces is allowed.
IsNumber(t) == t # <<>> /\ \A i \in 1..Len(t) : t[i] \in Digits

IsString(t) ==
  /\ Len(t) >= 2
  /\ t[1] = Ch.quote
  /\ Last(t) = Ch.quote
  /\ \A i \in 2..(Len(t) - 1) : t[i] # Ch.quote /\ t[i] # Ch.nl

IsEmptyObject(t) ==
  /\ Len(t) >= 2
  /\ t[1] = Ch.lbrace
  /\ Last(t) = Ch.rbrace
  /\ \A i \in 2..(Len(t) - 1) : IsSpace(t[i])

\* TRUE iff JSON.parse(s) returns (does not throw SyntaxError).
JSONValid(s) ==
  LET t == Trim(s) IN IsNumber(t) \/ IsString(t) \/ IsEmptyObject(t)

\* The value JSON.parse(s) returns, for a valid s.
JSONParse(s) ==
  LET t == Trim(s) IN
  IF IsNumber(t) THEN [t |-> "number", v |-> t]
  ELSE IF IsString(t) THEN [t |-> "string", v |-> SubSeq(t, 2, Len(t) - 1)]
  ELSE [t |-> "object", v |-> <<>>]

\* ------------------------------------------------------------ bridge state
VARIABLES
  child,      \* PythonBridge.child: 0 is null, g > 0 the handle of worker g
  buffer,     \* PythonBridge.buffer: characters read and not yet a full line
  pending,    \* PythonBridge.pending: the keys of the Map, in insertion order
  nextId,     \* PythonBridge.nextId
  calls,      \* the promise returned by each call(), by sequence id
  wstate,     \* each worker process: "none", "alive", "dead", "closed"
  stdin,      \* requests written to each worker's stdin and not yet read
  stdout,     \* bytes written to each worker's stdout and not yet delivered
  noise,      \* the lines the workers wrote that answer no request
  whole,      \* framing specification: all the bytes the worker wrote
  stderr,     \* bytes written to each worker's stderr and not yet delivered
  hasObserver,\* PythonBridge.stderrCallback is set (onStderr was given)
  observed,   \* the strings passed to stderrCallback, in order
  uncaught,   \* an 'error' event was emitted with no listener attached
  stopped,    \* the ids that were pending when stop() ended a worker
  abandoned   \* the ids of the calls whose caller no longer awaits them

gvars == <<stderr, hasObserver, observed, uncaught, stopped, abandoned>>

bvars == <<child, buffer, pending, nextId, calls, wstate, stdin, stdout, noise, whole, gvars>>

\* ----------------------------------------------------------- one-shot state
VARIABLES
  ophase,     \* pythonCall's child: "idle", "running", "exited", "failed", "closed"
  ocode,      \* the exit code of the child (-1 while there is none)
  opipe,      \* bytes written to the child's stdout and not yet delivered
  oerrpipe,   \* bytes written to the child's stderr and not yet delivered
  ostdout,    \* pythonCall's local variable stdout
  ostderr,    \* pythonCall's local variable stderr
  oresult     \* the promise pythonCall returns

ovars == <<ophase, ocode, opipe, oerrpipe, ostdout, ostderr, oresult>>

Workers == 1..MaxWorkers
Ids == 1..MaxCalls
Actions == {1, 2}            \* the action names callers use

NoValue == [t |-> "none", v |-> <<>>]
ClosedMessage == "Python process closed"

Unissued == [st |-> "unissued", val |-> NoValue, err |-> "", action |-> 0, to |-> 0]

BridgeInit ==
  /\ child = 0
  /\ buffer = <<>>
  /\ pending = <<>>
  /\ nextId = 1
  /\ calls = [i \in Ids |-> Unissued]
  /\ wstate = [g \in Workers |-> "none"]
  /\ stdin = [g \in Workers |-> <<>>]
  /\ stdout = [g \in Workers |-> <<>>]
  /\ noise = <<>>
  /\ whole = <<>>
  /\ stderr = [g \in Workers |-> <<>>]
  /\ hasObserver = FALSE
  /\ observed = <<>>
  /\ uncaught = FALSE
  /\ stopped = {}
  /\ abandoned = {}

NumSpawned == Cardinality({g \in Workers : wstate[g] # "none"})

\* --------------------------------------------------------------- hook state
VARIABLES
  hdata,      \* usePython: the state variable data
  hloading,   \* usePython: the state variable loading
  herror,     \* usePython: the state variable error
  hcalls      \* the invocations of usePython().call: position, the value
              \* pythonCall resolved with, the value returned

hvars == <<hdata, hloading, herror, hcalls>>

\* ---------------------------------------------------------------- CLI state
VARIABLES
  flags,      \* cli.flags: the boolean flags of the command line
  cphase,     \* "off", "start", "awaiting", "fetching", "ui", "exited"
  cinvoked,   \* the worker actions invoked since the launch, in order
  cprinted,   \* what console.log has written
  cexit,      \* the exit status of the process (-1 while it runs)
  cview,      \* App's state variable view ("none" while App is not rendered)
  cmenuIdx    \* App's state variable menuIdx

cvars == <<flags, cphase, cinvoked, cprinted, cexit, cview, cmenuIdx>>

\* ------------------------------------------------------- DownloadJobs state
VARIABLES
  dmounted,   \* DownloadJobs is mounted
  djobs,      \* the length of jobsList.data?.jobs || []
  dselectedIdx,  \* the state variable selectedIdx
  dexpanded,  \* the state variable expandedJob: 0 is null, j > 0 a job id
  dtimers,    \* the intervals that are alive, each with the expandedJob its
              \* callback closes over
  dpollRef,   \* pollRef.current: 0 is null, t > 0 the handle of interval t
  dcreated,   \* the number of intervals created so far
  dlast       \* the latest request issued, and what issued it

dvars ==
  <<dmounted, djobs, dselectedIdx, dexpanded, dtimers, dpollRef, dcreated,
    dlast>>

\* ---------------------------------------------------- DownloadManager state
VARIABLES
  mitems,     \* finder.data: the number of items, and of those that pass
              \* the filters 'human' and 'mouse'
  mphase,     \* the state variable phase ("none" while not mounted)
  mfilter,    \* the state variable speciesFilter
  mccreOnly,  \* the state variable ccreOnly
  mpage,      \* the state variable page
  mselectedIdx,  \* the state variable selectedIdx
  mselected   \* the state variable selectedItems

mvars ==
  <<mitems, mphase, mfilter, mccreOnly, mpage, mselectedIdx, mselected>>

wvars == <<dvars, mvars>>

avars == <<hvars, cvars, wvars>>

\* ------------------------------------------------------ bridge operations
\* The promise callbacks: settling a promise that is already settled does
\* nothing.
ResolvePromise(c, value) ==
  IF c.st = "pending" THEN [c EXCEPT !.st = "resolved", !.val = value] ELSE c

RejectPromise(c, message) ==
  IF c.st = "pending" THEN [c EXCEPT !.st = "rejected", !.err = message] ELSE c

\* Faulty variant of FirstKey: the newest key instead of the oldest.
FirstKeyNewest(pend) == IF pend = <<>> THEN 0 ELSE Last(pend)

\* this.pending.keys().next().value: the first key in insertion order
\* (0 stands for undefined).
FirstKey(pend) == IF pend = <<>> THEN 0 ELSE Head(pend)

\* Faulty variant of DeleteKey: the record is left in the map.
DeleteKeyKept(pend, key) == pend

\* this.pending.delete(key)
DeleteKey(pend, key) == SelectSeq(pend, LAMBDA k : k # key)

\* Faulty variant of ProcessLine: the oldest record is removed before the line is
\* parsed, so a line that is not JSON consumes it.
ProcessLineJunkConsumes(line, st) ==
  IF Trim(line) = <<>> THEN st
  ELSE LET firstKey == FirstKey(st.pending) IN
       IF firstKey = 0 THEN st
       ELSE IF ~JSONValid(line)
            THEN [st EXCEPT !.pending = DeleteKey(st.pending, firstKey)]
            ELSE [pending |-> DeleteKey(st.pending, firstKey),
                  calls |-> [st.calls EXCEPT
                               ![firstKey] = ResolvePromise(@, JSONParse(line))]]

\* The body of the for loop of _processBuffer for one line.
ProcessLine(line, st) ==
  IF Trim(line) = <<>> THEN st
  ELSE IF ~JSONValid(line) THEN st
  ELSE LET firstKey == FirstKey(st.pending) IN
       IF firstKey # 0
       THEN [pending |-> DeleteKey(st.pending, firstKey),
             calls |-> [st.calls EXCEPT
                          ![firstKey] = ResolvePromise(@, JSONParse(line))]]
       ELSE st

RECURSIVE ProcessLines(_, _)
ProcessLines(lines, st) ==
  IF lines = <<>> THEN st
  ELSE ProcessLines(Tail(lines), ProcessLine(Head(lines), st))

\* Faulty variant of ProcessBuffer: the complete lines stay in the buffer.
ProcessBufferKeepsLines(buf, pend, cs) ==
  LET lines == Split(buf)
      st == ProcessLines(Front(lines), [pending |-> pend, calls |-> cs])
  IN [buffer |-> buf, pending |-> st.pending, calls |-> st.calls]

\* Faulty variant of ProcessBuffer: while no call is pending the complete
\* lines are kept in the buffer for the next call.
ProcessBufferKeepsUnsolicited(buf, pend, cs) ==
  LET lines == Split(buf)
      st == ProcessLines(Front(lines), [pending |-> pend, calls |-> cs])
  IN [buffer |-> IF pend = <<>> THEN buf ELSE Last(lines),
      pending |-> st.pending, calls |-> st.calls]

\* PythonBridge._processBuffer on the buffer buf.
ProcessBuffer(buf, pend, cs) ==
  LET lines == Split(buf)
      st == ProcessLines(Front(lines), [pending |-> pend, calls |-> cs])
  IN [buffer |-> Last(lines), pending |-> st.pending, calls |-> st.calls]

\* Faulty variant of CloseHandler: only the oldest pending promise is rejected.
CloseHandlerOldestOnly(pend, cs) ==
  [pending |-> <<>>,
   calls |-> [i \in Ids |->
                IF pend # <<>> /\ Head(pend) = i
                THEN RejectPromise(cs[i], ClosedMessage) ELSE cs[i]]]

\* The close handler: every pending promise is rejected, the map cleared.
CloseHandler(pend, cs) ==
  [pending |-> <<>>,
   calls |-> [i \in Ids |->
                IF \E k \in 1..Len(pend) : pend[k] = i
                THEN RejectPromise(cs[i], ClosedMessage) ELSE cs[i]]]

\* JSON.stringify({action, params}) + "\n", as the worker reads it.
Request(action) == [action |-> action]

\* The strings passed as action: "x", and a name with a newline inside.
ActionName(action) == IF action = 1 THEN <<Ch.x>> ELSE <<Ch.x, Ch.nl, Ch.x>>

\* JSON.stringify of a string: quoted, a newline written as the two
\* characters backslash, n, a quote and a backslash after a backslash.
RECURSIVE Escape(_)
Escape(str) ==
  IF str = <<>> THEN <<>>
  ELSE (IF Head(str) = Ch.nl THEN <<92, 110>>
        ELSE IF Head(str) \in {Ch.quote, 92} THEN <<92, Head(str)>>
        ELSE <<Head(str)>>)
         \o Escape(Tail(str))

\* Faulty variant of JSONStringifyString: the characters are not escaped.
JSONStringifyStringRaw(str) == <<Ch.quote>> \o str \o <<Ch.quote>>

JSONStringifyString(str) == <<Ch.quote>> \o Escape(str) \o <<Ch.quote>>

\* JSON.stringify({action, params}) + '\n' with the default params {}:
\* {"action":<name>,"params":{}} and a newline.
RequestLine(req) ==
  <<Ch.lbrace, Ch.quote, 97, 99, 116, 105, 111, 110, Ch.quote, 58>>
    \o JSONStringifyString(ActionName(req.action))
    \o <<44, Ch.quote, 112, 97, 114, 97, 109, 115, Ch.quote, 58,
         Ch.lbrace, Ch.rbrace, Ch.rbrace, Ch.nl>>

\* PythonBridge.start(): spawn a worker and attach the handlers to it.
Start ==
  /\ NumSpawned < MaxWorkers
  /\ child' = NumSpawned + 1
  /\ wstate' = [wstate EXCEPT ![NumSpawned + 1] = "alive"]
  /\ UNCHANGED <<buffer, pending, nextId, calls, stdin, stdout, noise, whole, gvars, ovars, avars>>

\* PythonBridge.call(action): spawn when there is no child, register the
\* pending record under the next id, write the request to the child's stdin.
\* A write to a worker that has exited is lost: no handler of the bridge
\* observes its failure, and the promise is settled by nothing but a later
\* response line or close event.
Call(action) ==
  /\ nextId <= MaxCalls
  /\ child = 0 => NumSpawned < MaxWorkers
  /\ LET h == IF child = 0 THEN NumSpawned + 1 ELSE child
         ws == IF child = 0 THEN [wstate EXCEPT ![h] = "alive"] ELSE wstate
     IN /\ child' = h
        /\ wstate' = ws
        /\ nextId' = nextId + 1
        /\ pending' = Append(pending, nextId)
        /\ calls' = [calls EXCEPT ![nextId] =
                       [st |-> "pending", val |-> NoValue, err |-> "",
                        action |-> action, to |-> h]]
        /\ stdin' = IF ws[h] = "alive"
                    THEN [stdin EXCEPT ![h] = Append(@, Request(action))]
                    ELSE stdin
  /\ UNCHANGED <<buffer, stdout, noise, whole, gvars, ovars, avars>>

\* Faulty variant of Stop: stop() also restarts the id counter.
StopResetsIds ==
  /\ IF child # 0
     THEN /\ wstate' = [wstate EXCEPT ![child] = IF @ = "alive" THEN "dead" ELSE @]
          /\ stdin' = [stdin EXCEPT ![child] = <<>>]
          /\ child' = 0
          /\ stopped' = stopped \cup {pending[k] : k \in 1..Len(pending)}
     ELSE UNCHANGED <<wstate, stdin, child, stopped>>
  /\ nextId' = 1
  /\ UNCHANGED <<buffer, pending, calls, stdout, noise, whole, ovars, avars>>
  /\ UNCHANGED <<stderr, hasObserver, observed, uncaught, abandoned>>

\* Faulty variant of Stop: stop() also empties the pending map.
StopClearsPending ==
  /\ IF child # 0
     THEN /\ wstate' = [wstate EXCEPT ![child] = IF @ = "alive" THEN "dead" ELSE @]
          /\ stdin' = [stdin EXCEPT ![child] = <<>>]
          /\ child' = 0
          /\ stopped' = stopped \cup {pending[k] : k \in 1..Len(pending)}
     ELSE UNCHANGED <<wstate, stdin, child, stopped>>
  /\ pending' = <<>>
  /\ UNCHANGED <<buffer, nextId, calls, stdout, noise, whole, ovars, avars>>
  /\ UNCHANGED <<stderr, hasObserver, observed, uncaught, abandoned>>

\* PythonBridge.stop(): end stdin, kill the process, forget the handle.  The
\* handlers stay attached: what the worker wrote before it died is still
\* delivered, and its close event still fires.
Stop ==
  /\ IF child # 0
     THEN /\ wstate' = [wstate EXCEPT ![child] = IF @ = "alive" THEN "dead" ELSE @]
          /\ stdin' = [stdin EXCEPT ![child] = <<>>]
          /\ child' = 0
          /\ stopped' = stopped \cup {pending[k] : k \in 1..Len(pending)}
     ELSE UNCHANGED <<wstate, stdin, child, stopped>>
  /\ UNCHANGED <<buffer, pending, nextId, calls, stdout, noise, whole, ovars, avars>>
  /\ UNCHANGED <<stderr, hasObserver, observed, uncaught, abandoned>>

\* The stdout 'data' handler of worker g, for a chunk of the first n bytes
\* in flight: buffer += data.toString(); _processBuffer().
StdoutData(g, n) ==
  /\ wstate[g] \in {"alive", "dead"}
  /\ n \in 1..Len(stdout[g])
  /\ LET chunk == SubSeq(stdout[g], 1, n)
         r == ProcessBuffer(buffer \o BufferToString(chunk), pending, calls)
     IN /\ buffer' = r.buffer
        /\ pending' = r.pending
        /\ calls' = r.calls
        /\ stdout' = [stdout EXCEPT ![g] = SubSeq(@, n + 1, Len(@))]
  /\ UNCHANGED <<child, nextId, wstate, stdin, noise, whole, gvars, ovars, avars>>

\* The 'close' event of worker g: the process has ended and its stdout has
\* been read to the end.
WorkerClose(g) ==
  /\ wstate[g] = "dead"
  /\ stdout[g] = <<>>
  /\ stderr[g] = <<>>
  /\ wstate' = [wstate EXCEPT ![g] = "closed"]
  /\ LET r == CloseHandler(pending, calls)
     IN pending' = r.pending /\ calls' = r.calls
  /\ UNCHANGED <<child, buffer, nextId, stdin, stdout, noise, whole, gvars, ovars, avars>>

\* Faulty variant of Abandon: the call gives up its slot in the pending map.
AbandonFreesSlot(i) ==
  /\ calls[i].st = "pending"
  /\ i \notin abandoned
  /\ abandoned' = abandoned \cup {i}
  /\ pending' = SelectSeq(pending, LAMBDA k : k # i)
  /\ UNCHANGED <<child, buffer, nextId, calls, wstate, stdin, stdout, noise, whole, ovars, avars>>
  /\ UNCHANGED <<stderr, hasObserver, observed, uncaught, stopped>>

\* The caller of call i stops awaiting the promise call() returned (it lost
\* a race against the caller's own timer).  call() hands out nothing but the
\* promise: the bridge is not told and keeps all its state.
Abandon(i) ==
  /\ calls[i].st = "pending"
  /\ i \notin abandoned
  /\ abandoned' = abandoned \cup {i}
  /\ UNCHANGED <<child, buffer, pending, nextId, calls, wstate, stdin, stdout, noise, whole, ovars, avars>>
  /\ UNCHANGED <<stderr, hasObserver, observed, uncaught, stopped>>

\* child.stderr.on('data'): the decoded chunk is passed to stderrCallback,
\* if there is one.
StderrData(g, n) ==
  /\ wstate[g] \in {"alive", "dead"}
  /\ n \in 1..Len(stderr[g])
  /\ observed' = IF hasObserver
                 THEN Append(observed, BufferToString(SubSeq(stderr[g], 1, n)))
                 ELSE observed
  /\ stderr' = [stderr EXCEPT ![g] = SubSeq(@, n + 1, Len(@))]
  /\ UNCHANGED <<child, buffer, pending, nextId, calls, wstate, stdin, stdout, noise, whole, ovars, avars>>
  /\ UNCHANGED <<hasObserver, uncaught, stopped, abandoned>>

\* The 'error' event of a child that could not be spawned (emitted on the
\* tick after spawn()).  start() attaches no 'error' listener, so the emit
\* throws out of the event loop; the 'close' event of the child, which the
\* same callback would emit next, is not reached.
SpawnError(g) ==
  /\ wstate[g] \in {"alive", "dead"}
  /\ wstate' = [wstate EXCEPT ![g] = "failed"]
  /\ stdin' = [stdin EXCEPT ![g] = <<>>]
  /\ uncaught' = TRUE
  /\ UNCHANGED <<child, buffer, pending, nextId, calls, stdout, noise, whole, ovars, avars>>
  /\ UNCHANGED <<stderr, hasObserver, observed, stopped, abandoned>>

\* ------------------------------------------------------------ the worker
\* The line a worker answers a request with: the JSON number of the action.
ResponseLine(req) == <<48 + req.action, Ch.nl>>

\* Lines a worker may write that answer no request: a blank line, a line
\* that is not JSON, an unterminated fragment, an unsolicited JSON line.
NoiseLines ==
  {<<Ch.nl>>, <<Ch.x, Ch.nl>>, <<Ch.x>>} \cup {ResponseLine(Request(a)) : a \in Actions}

\* The worker reads the oldest request and writes its answer.
WorkerRespond(g) ==
  /\ wstate[g] = "alive"
  /\ stdin[g] # <<>>
  /\ stdout' = [stdout EXCEPT ![g] = @ \o ResponseLine(Head(stdin[g]))]
  /\ stdin' = [stdin EXCEPT ![g] = Tail(@)]
  /\ UNCHANGED <<child, buffer, pending, nextId, calls, wstate, noise, whole, gvars, ovars, avars>>

WorkerNoise(g, line) ==
  /\ wstate[g] = "alive"
  /\ Len(noise) < MaxNoise
  /\ stdout' = [stdout EXCEPT ![g] = @ \o line]
  /\ noise' = Append(noise, line)
  /\ UNCHANGED <<child, buffer, pending, nextId, calls, wstate, stdin, whole, gvars, ovars, avars>>

\* The worker process ends by itself (exit or crash); unread input is lost.
WorkerExit(g) ==
  /\ wstate[g] = "alive"
  /\ wstate' = [wstate EXCEPT ![g] = "dead"]
  /\ stdin' = [stdin EXCEPT ![g] = <<>>]
  /\ UNCHANGED <<child, buffer, pending, nextId, calls, stdout, noise, whole, gvars, ovars, avars>>

\* ------------------------------------------------------------- pythonCall
NoResponse == [kind |-> "none", val |-> NoValue, code |-> -1,
               stderr |-> <<>>, stdout |-> <<>>, text |-> ""]

\* resolve(result as IPCResponse): the parsed value itself.
ParsedResponse(value) == [NoResponse EXCEPT !.kind = "parsed", !.val = value]

\* {ok: false, error: `Python process exited with code ${code}. stderr: ...
\* stdout: ...`}: the parts the message embeds.
ExitFailure(code, errTail, outTail) ==
  [NoResponse EXCEPT !.kind = "exit-failure", !.code = code,
                     !.stderr = errTail, !.stdout = outTail]

\* {ok: false, error: `Failed to spawn Python: ${err.message}`}
SpawnErrorText == "spawn python3 ENOENT"

SpawnFailure == [NoResponse EXCEPT !.kind = "spawn-failure",
                                   !.text = SpawnErrorText]

TailLimit == 500

\* Faulty variant of SliceLast: the whole string.
SliceLastWhole(s, n) == s

\* String.prototype.slice(-n)
SliceLast(s, n) == IF Len(s) <= n THEN s ELSE SubSeq(s, Len(s) - n + 1, Len(s))

\* stdout.trim().split('\n').filter(l => l.trim())
NonBlankLines(out) == SelectSeq(Split(Trim(out)), LAMBDA l : Trim(l) # <<>>)

\* Faulty variant of LastLine: the first non-blank line instead of the last.
LastLineFirst(out) ==
  LET lines == NonBlankLines(out)
  IN IF lines = <<>> THEN <<Ch.lbrace, Ch.rbrace>> ELSE Head(lines)

\* lines[lines.length - 1] || '{}'
LastLine(out) ==
  LET lines == NonBlankLines(out)
  IN IF lines = <<>> THEN <<Ch.lbrace, Ch.rbrace>> ELSE Last(lines)

\* The try/catch of the close handler of pythonCall.
CloseResult(code, out, err) ==
  LET lastLine == LastLine(out)
  IN IF JSONValid(lastLine)
     THEN ParsedResponse(JSONParse(lastLine))
     ELSE ExitFailure(code, SliceLast(err, TailLimit), SliceLast(out, TailLimit))

\* Faulty variant of Settle: the last call of resolve() wins.
SettleLast(promise, response) == [st |-> "resolved", resp |-> response]

\* resolve(): only the first call settles the promise.
Settle(promise, response) ==
  IF promise.st = "pending" THEN [st |-> "resolved", resp |-> response] ELSE promise

OneShotIdle ==
  /\ ophase = "idle"
  /\ ocode = -1
  /\ opipe = <<>>
  /\ oerrpipe = <<>>
  /\ ostdout = <<>>
  /\ ostderr = <<>>
  /\ oresult = [st |-> "pending", resp |-> NoResponse]

\* pythonCall(action, params) up to the return of the promise.
OneShotInit ==
  /\ ophase = "running"
  /\ ocode = -1
  /\ opipe = <<>>
  /\ oerrpipe = <<>>
  /\ ostdout = <<>>
  /\ ostderr = <<>>
  /\ oresult = [st |-> "pending", resp |-> NoResponse]

OutBytes == {Ch.nl, Ch.sp, Ch.x, 49, 50}
ExitCodes == {0, 1}
Written == Len(ostdout) + Len(opipe) + Len(ostderr) + Len(oerrpipe)

\* The child writes one byte to its stdout / its stderr.
OWorkerWrite(b) ==
  /\ ophase = "running"
  /\ Written < MaxOut
  /\ opipe' = Append(opipe, b)
  /\ UNCHANGED <<ophase, ocode, oerrpipe, ostdout, ostderr, oresult, bvars, avars>>

OWorkerWriteErr ==
  /\ ophase = "running"
  /\ Written < MaxOut
  /\ oerrpipe' = Append(oerrpipe, Ch.x)
  /\ UNCHANGED <<ophase, ocode, opipe, ostdout, ostderr, oresult, bvars, avars>>

\* Faulty variant of OStdoutData: the promise is settled from the output
\* received so far, as soon as it ends with a line that parses.
OStdoutDataSettles(n) ==
  /\ ophase \in {"running", "exited"}
  /\ n \in 1..Len(opipe)
  /\ ostdout' = ostdout \o BufferToString(SubSeq(opipe, 1, n))
  /\ opipe' = SubSeq(opipe, n + 1, Len(opipe))
  /\ oresult' = IF JSONValid(LastLine(ostdout'))
                THEN Settle(oresult, CloseResult(ocode, ostdout', ostderr))
                ELSE oresult
  /\ UNCHANGED <<ophase, ocode, oerrpipe, ostderr, bvars, avars>>

\* child.stdout.on('data'): stdout += data.toString()
OStdoutData(n) ==
  /\ ophase \in {"running", "exited"}
  /\ n \in 1..Len(opipe)
  /\ ostdout' = ostdout \o BufferToString(SubSeq(opipe, 1, n))
  /\ opipe' = SubSeq(opipe, n + 1, Len(opipe))
  /\ UNCHANGED <<ophase, ocode, oerrpipe, ostderr, oresult, bvars, avars>>

\* child.stderr.on('data'): stderr += data.toString()
OStderrData(n) ==
  /\ ophase \in {"running", "exited"}
  /\ n \in 1..Len(oerrpipe)
  /\ ostderr' = ostderr \o BufferToString(SubSeq(oerrpipe, 1, n))
  /\ oerrpipe' = SubSeq(oerrpipe, n + 1, Len(oerrpipe))
  /\ UNCHANGED <<ophase, ocode, opipe, ostdout, oresult, bvars, avars>>

\* The child process ends with an exit code.
OWorkerExit(code) ==
  /\ ophase = "running"
  /\ ophase' = "exited"
  /\ ocode' = code
  /\ UNCHANGED <<opipe, oerrpipe, ostdout, ostderr, oresult, bvars, avars>>

\* child.on('error'): the process could not be spawned (errno -2, ENOENT).
OSpawnError ==
  /\ ophase = "running"
  /\ Written = 0
  /\ ophase' = "failed"
  /\ ocode' = -2
  /\ oresult' = Settle(oresult, SpawnFailure)
  /\ UNCHANGED <<opipe, oerrpipe, ostdout, ostderr, bvars, avars>>

\* child.on('close'): the process has ended and its streams are read to the
\* end.
OClose ==
  /\ ophase \in {"exited", "failed"}
  /\ opipe = <<>>
  /\ oerrpipe = <<>>
  /\ ophase' = "closed"
  /\ oresult' = Settle(oresult, CloseResult(ocode, ostdout, ostderr))
  /\ UNCHANGED <<ocode, opipe, oerrpipe, ostdout, ostderr, bvars, avars>>

\* ---------------------------------------------------------------- JS values
\* Values are records [t, v]; the members of an object are a sequence of
\* <<name, value>> pairs in insertion order.
JSNull == [t |-> "null", v |-> <<>>]
JSUndefined == [t |-> "undefined", v |-> <<>>]
JSTrue == [t |-> "boolean", v |-> <<1>>]
JSFalse == [t |-> "boolean", v |-> <<0>>]
Str(codes) == [t |-> "string", v |-> codes]
Num(digits) == [t |-> "number", v |-> digits]
Obj(members) == [t |-> "object", v |-> members]

HasMember(val, name) ==
  val.t = "object" /\ \E k \in 1..Len(val.v) : val.v[k][1] = name

\* val[name] for a val that is neither null nor undefined: a member of an
\* object, undefined for a member that is absent and for a primitive.
Get(val, name) ==
  IF HasMember(val, name)
  THEN val.v[CHOOSE k \in 1..Len(val.v) : val.v[k][1] = name][2]
  ELSE JSUndefined

\* ToBoolean
Truthy(val) ==
  CASE val.t \in {"null", "undefined", "none"} -> FALSE
    [] val.t = "boolean" -> val.v = <<1>>
    [] val.t = "string" -> val.v # <<>>
    [] val.t = "number" -> \E i \in 1..Len(val.v) : val.v[i] # 48
    [] OTHER -> TRUE

\* a || b
OrElse(a, b) == IF Truthy(a) THEN a ELSE b

\* String(n) for an integer n
RECURSIVE NumberToString(_)
NumberToString(n) ==
  IF n < 0 THEN <<45>> \o NumberToString(0 - n)
  ELSE IF n < 10 THEN <<48 + n>>
  ELSE NumberToString(n \div 10) \o <<48 + (n % 10)>>

\* `Python process exited with code ${code}. stderr: ${...}. stdout: ${...}`
ExitFailureMessage(code, errTail, outTail) ==
  <<80, 121, 116, 104, 111, 110, 32, 112, 114, 111, 99, 101, 115, 115, 32,
    101, 120, 105, 116, 101, 100, 32, 119, 105, 116, 104, 32, 99, 111, 100,
    101, 32>>
    \o NumberToString(code)
    \o <<46, 32, 115, 116, 100, 101, 114, 114, 58, 32>> \o errTail
    \o <<46, 32, 115, 116, 100, 111, 117, 116, 58, 32>> \o outTail

\* `Failed to spawn Python: ${err.message}` with the message of ENOENT,
\* "spawn python3 ENOENT"
SpawnFailureMessage ==
  <<70, 97, 105, 108, 101, 100, 32, 116, 111, 32, 115, 112, 97, 119, 110, 32,
    80, 121, 116, 104, 111, 110, 58, 32, 115, 112, 97, 119, 110, 32, 112,
    121, 116, 104, 111, 110, 51, 32, 69, 78, 79, 69, 78, 84>>

\* The value a caller of pythonCall receives for a Response of the model.
AsValue(resp) ==
  CASE resp.kind = "parsed" -> resp.val
    [] resp.kind = "exit-failure" ->
         Obj(<< <<"ok", JSFalse>>,
                <<"error", Str(ExitFailureMessage(resp.code, resp.stderr,
                                                  resp.stdout))>> >>)
    [] resp.kind = "spawn-failure" ->
         Obj(<< <<"ok", JSFalse>>, <<"error", Str(SpawnFailureMessage)>> >>)

\* What a child of pythonCall has written to its stdout and its stderr when
\* it closes: nothing, a line that is a number, a line that is a string, a
\* line that is not JSON.
ChildOutputs == {<<>>, <<49, Ch.nl>>, <<Ch.quote, Ch.x, Ch.quote, Ch.nl>>, <<Ch.x>>}
ChildErrors == {<<>>, <<Ch.x>>}

\* The values JSON.parse returns for a last line that holds null or an
\* object with members.
ParsedObjects ==
  { JSNull,
    Obj(<< <<"ok", JSTrue>>, <<"data", Num(<<49>>)>> >>),
    Obj(<< <<"ok", JSTrue>>, <<"data", Num(<<50>>)>> >>),
    Obj(<< <<"ok", JSTrue>> >>),
    Obj(<< <<"ok", JSFalse>>, <<"error", Str(<<Ch.x>>)>> >>),
    Obj(<< <<"ok", JSFalse>>, <<"error", Str(<<>>)>> >>),
    Obj(<< <<"ok", JSFalse>> >>) }

\* The values the promise of pythonCall is resolved with; it is never
\* rejected.
PythonCallValues ==
  {AsValue(SpawnFailure)}
    \cup {AsValue(CloseResult(c, o, e)) :
            c \in ExitCodes, o \in ChildOutputs, e \in ChildErrors}
    \cup ParsedObjects

\* ---------------------------------------------------------------- usePython
HookCalls == 1..MaxHookCalls

\* 'Unknown error'
UnknownError == <<85, 110, 107, 110, 111, 119, 110, 32, 101, 114, 114, 111, 114>>

\* 'Failed to call Python backend'
FailedToCall ==
  <<70, 97, 105, 108, 101, 100, 32, 116, 111, 32, 99, 97, 108, 108, 32, 80,
    121, 116, 104, 111, 110, 32, 98, 97, 99, 107, 101, 110, 100>>

\* The message of the TypeError of result.ok for a result that is null:
\* "Cannot read properties of null (reading 'ok')"
TypeErrorMessage ==
  <<67, 97, 110, 110, 111, 116, 32, 114, 101, 97, 100, 32, 112, 114, 111,
    112, 101, 114, 116, 105, 101, 115, 32, 111, 102, 32, 110, 117, 108, 108,
    32, 40, 114, 101, 97, 100, 105, 110, 103, 32, 39, 111, 107, 39, 41>>

HookIdleCall == [st |-> "idle", result |-> NoValue, ret |-> NoValue]

\* useState(null), useState(false), useState(null)
HookIdle ==
  /\ hdata = JSNull
  /\ hloading = FALSE
  /\ herror = JSNull
  /\ hcalls = [k \in HookCalls |-> HookIdleCall]

\* The body of call after the await, for the value r pythonCall resolved
\* with: the branch taken, the value returned and the argument of setError.
HookBody(r) ==
  IF r.t = "null"
  THEN [path |-> "catch", ret |-> JSNull,
        error |-> OrElse(Str(TypeErrorMessage), Str(FailedToCall))]
  ELSE IF Truthy(Get(r, "ok"))
  THEN [path |-> "ok", ret |-> Get(r, "data"), error |-> JSNull]
  ELSE [path |-> "error", ret |-> JSNull,
        error |-> OrElse(Get(r, "error"), Str(UnknownError))]

\* call(action, params) up to the await: setLoading(true); setError(null).
HookCall(k) ==
  /\ hcalls[k].st = "idle"
  /\ \A j \in 1..(k - 1) : hcalls[j].st # "idle"
  /\ hloading' = TRUE
  /\ herror' = JSNull
  /\ hcalls' = [hcalls EXCEPT ![k].st = "awaiting"]
  /\ UNCHANGED <<hdata, bvars, ovars, cvars, wvars>>

\* Faulty variant of HookSettle: no try/catch around the body, the TypeError
\* of result.ok leaves call.
HookSettleNoCatch(k, r) ==
  /\ hcalls[k].st = "awaiting"
  /\ LET b == HookBody(r) IN
     IF b.path = "catch"
     THEN /\ hcalls' = [hcalls EXCEPT ![k] = [st |-> "threw", result |-> r,
                                              ret |-> NoValue]]
          /\ UNCHANGED <<hdata, herror, hloading>>
     ELSE /\ hdata' = IF b.path = "ok" THEN b.ret ELSE hdata
          /\ herror' = IF b.path = "ok" THEN herror ELSE b.error
          /\ hloading' = FALSE
          /\ hcalls' = [hcalls EXCEPT ![k] = [st |-> "returned", result |-> r,
                                              ret |-> b.ret]]
  /\ UNCHANGED <<bvars, ovars, cvars, wvars>>

\* call(action, params) from the await on, pythonCall having resolved with r.
HookSettle(k, r) ==
  /\ hcalls[k].st = "awaiting"
  /\ LET b == HookBody(r) IN
     /\ hdata' = IF b.path = "ok" THEN b.ret ELSE hdata
     /\ herror' = IF b.path = "ok" THEN herror ELSE b.error
     /\ hloading' = FALSE
     /\ hcalls' = [hcalls EXCEPT ![k] = [st |-> "returned", result |-> r,
                                         ret |-> b.ret]]
  /\ UNCHANGED <<bvars, ovars, cvars, wvars>>

\* reset()
HookReset ==
  /\ hdata' = JSNull
  /\ hloading' = FALSE
  /\ herror' = JSNull
  /\ UNCHANGED <<hcalls, bvars, ovars, cvars, wvars>>

\* ------------------------------------------------------------- DownloadJobs
\* The component is not mounted.
JobsIdle ==
  /\ dmounted = FALSE
  /\ djobs = 0
  /\ dselectedIdx = 0
  /\ dexpanded = 0
  /\ dtimers = {}
  /\ dpollRef = 0
  /\ dcreated = 0
  /\ dlast = [by |-> "none", action |-> "none", job |-> 0]

\* Faulty variant of PollCleanup: the effect returns no cleanup.
PollCleanupNone(timers, ref) == timers

\* The cleanup of the poll effect: if (pollRef.current)
\* clearInterval(pollRef.current).
PollCleanup(timers, ref) ==
  IF ref # 0 THEN {t \in timers : t.id # ref} ELSE timers

\* The body of the poll effect in a render whose expandedJob is job:
\* jobsList.call('list_download_jobs'), and pollRef.current =
\* setInterval(...), the callback closing over job.
PollEffect(timers, job) ==
  /\ dlast' = [by |-> "effect", action |-> "list_download_jobs", job |-> 0]
  /\ dcreated' = dcreated + 1
  /\ dpollRef' = dcreated + 1
  /\ dtimers' = timers \cup {[id |-> dcreated + 1, job |-> job]}

\* DownloadJobs is mounted: useState(null), useRef(null), the effect runs.
JobsMount ==
  /\ ~dmounted
  /\ dcreated < MaxTimers
  /\ dmounted' = TRUE
  /\ dexpanded' = 0
  /\ PollEffect(dtimers, 0)
  /\ UNCHANGED <<djobs, dselectedIdx, bvars, ovars, hvars, cvars, mvars>>

\* A call of list_download_jobs has resolved with a list of n jobs, whose
\* ids are 1..n in the order of the list.
JobsListed(n) ==
  /\ dmounted
  /\ djobs' = n
  /\ UNCHANGED <<dmounted, dselectedIdx, dexpanded, dtimers, dpollRef,
                 dcreated, dlast>>
  /\ UNCHANGED <<bvars, ovars, hvars, cvars, mvars>>

\* The up and down arrows in the list view.
JobsUp ==
  /\ dmounted
  /\ dexpanded = 0
  /\ dselectedIdx' = IF dselectedIdx - 1 > 0 THEN dselectedIdx - 1 ELSE 0
  /\ UNCHANGED <<dmounted, djobs, dexpanded, dtimers, dpollRef, dcreated,
                 dlast>>
  /\ UNCHANGED <<bvars, ovars, hvars, cvars, mvars>>

JobsDown ==
  /\ dmounted
  /\ dexpanded = 0
  /\ dselectedIdx' = IF djobs - 1 < dselectedIdx + 1 THEN djobs - 1
                     ELSE dselectedIdx + 1
  /\ UNCHANGED <<dmounted, djobs, dexpanded, dtimers, dpollRef, dcreated,
                 dlast>>
  /\ UNCHANGED <<bvars, ovars, hvars, cvars, mvars>>

\* Enter in the list view on a row that holds a job:
\* setExpandedJob(job.job_id) and a call of get_job_status; the dependency of
\* the effect has changed, so after the render its cleanup runs and then the
\* effect, before any timer can fire.
JobsExpand ==
  /\ dmounted
  /\ dexpanded = 0
  /\ dselectedIdx \in 0..(djobs - 1)
  /\ dcreated < MaxTimers
  /\ dexpanded' = dselectedIdx + 1
  /\ PollEffect(PollCleanup(dtimers, dpollRef), dselectedIdx + 1)
  /\ UNCHANGED <<dmounted, djobs, dselectedIdx>>
  /\ UNCHANGED <<bvars, ovars, hvars, cvars, mvars>>

\* Escape or q in the expanded view: setExpandedJob(null) and a call of
\* list_download_jobs; then the cleanup and the effect.
JobsCollapse ==
  /\ dmounted
  /\ dexpanded # 0
  /\ dcreated < MaxTimers
  /\ dexpanded' = 0
  /\ PollEffect(PollCleanup(dtimers, dpollRef), 0)
  /\ UNCHANGED <<dmounted, djobs, dselectedIdx>>
  /\ UNCHANGED <<bvars, ovars, hvars, cvars, mvars>>

\* The component is unmounted (back to the menu, or the application exits):
\* the cleanup runs; the state and the ref of the instance are gone.
JobsUnmount ==
  /\ dmounted
  /\ dmounted' = FALSE
  /\ djobs' = 0
  /\ dselectedIdx' = 0
  /\ dexpanded' = 0
  /\ dpollRef' = 0
  /\ dtimers' = PollCleanup(dtimers, dpollRef)
  /\ UNCHANGED <<dcreated, dlast, bvars, ovars, hvars, cvars, mvars>>

\* A tick of interval t: the callback of setInterval.
JobsTick(t) ==
  /\ t \in dtimers
  /\ dlast' = IF t.job # 0
              THEN [by |-> "tick", action |-> "get_job_status", job |-> t.job]
              ELSE [by |-> "tick", action |-> "list_download_jobs", job |-> 0]
  /\ UNCHANGED <<dmounted, djobs, dselectedIdx, dexpanded, dtimers, dpollRef,
                 dcreated>>
  /\ UNCHANGED <<bvars, ovars, hvars, cvars, mvars>>

\* ---------------------------------------------------------- DownloadManager
\* pageSize = Math.max(8, termRows - 12) on a terminal of at most 20 rows.
PageSize == 8

\* The lists find_paired answers with, by the number of their items and of
\* those that pass the filters 'human' and 'mouse': an empty list, one item,
\* and lists of one item more than a page.
ItemLists ==
  { [total |-> 0, human |-> 0, mouse |-> 0],
    [total |-> 1, human |-> 1, mouse |-> 0],
    [total |-> PageSize + 1, human |-> 1, mouse |-> PageSize],
    [total |-> PageSize + 1, human |-> PageSize + 1, mouse |-> 0] }

\* getFilteredItems().length
FilteredLength ==
  CASE mfilter = "human" -> mitems.human
    [] mfilter = "mouse" -> mitems.mouse
    [] OTHER -> mitems.total

Max(a, b) == IF a > b THEN a ELSE b

\* The preview as it is rendered: totalPages, currentPage, the number of rows
\* of pageItems, and the absolute index of the row i of the page.
\* Math.max(1, Math.ceil(items.length / pageSize))
TotalPages == Max(1, (FilteredLength + PageSize - 1) \div PageSize)

CurrentPage == Min(mpage, TotalPages - 1)

PageRows ==
  Max(0, Min(FilteredLength, (CurrentPage + 1) * PageSize)
           - CurrentPage * PageSize)

RowAbsIdx(i) == CurrentPage * PageSize + i

\* The component is not mounted.
ManagerIdle ==
  /\ mitems = [total |-> 0, human |-> 0, mouse |-> 0]
  /\ mphase = "none"
  /\ mfilter = "all"
  /\ mccreOnly = FALSE
  /\ mpage = 0
  /\ mselectedIdx = 0
  /\ mselected = {}

\* Neither DownloadJobs nor DownloadManager is mounted.
ViewsIdle == JobsIdle /\ ManagerIdle

\* DownloadManager is mounted: the initial state, and finder.call is issued.
ManagerMount ==
  /\ mphase = "none"
  /\ mphase' = "scanning"
  /\ UNCHANGED <<mitems, mfilter, mccreOnly, mpage, mselectedIdx, mselected>>
  /\ UNCHANGED <<bvars, ovars, hvars, cvars, dvars>>

\* finder.call has resolved, with a list or with null: setPhase('preview').
ManagerScanned(items) ==
  /\ mphase = "scanning"
  /\ mphase' = "preview"
  /\ mitems' = items
  /\ UNCHANGED <<mfilter, mccreOnly, mpage, mselectedIdx, mselected>>
  /\ UNCHANGED <<bvars, ovars, hvars, cvars, dvars>>

\* Escape or q in any phase: onBack(), the component is unmounted.
ManagerBack ==
  /\ mphase # "none"
  /\ mitems' = [total |-> 0, human |-> 0, mouse |-> 0]
  /\ mphase' = "none"
  /\ mfilter' = "all"
  /\ mccreOnly' = FALSE
  /\ mpage' = 0
  /\ mselectedIdx' = 0
  /\ mselected' = {}
  /\ UNCHANGED <<bvars, ovars, hvars, cvars, dvars>>

ManagerUp ==
  /\ mphase = "preview"
  /\ mselectedIdx' = Max(0, mselectedIdx - 1)
  /\ UNCHANGED <<mitems, mphase, mfilter, mccreOnly, mpage, mselected>>
  /\ UNCHANGED <<bvars, ovars, hvars, cvars, dvars>>

ManagerDown ==
  /\ mphase = "preview"
  /\ mselectedIdx' =
       Min(Min(PageSize, FilteredLength) - 1, mselectedIdx + 1)
  /\ UNCHANGED <<mitems, mphase, mfilter, mccreOnly, mpage, mselected>>
  /\ UNCHANGED <<bvars, ovars, hvars, cvars, dvars>>

\* Right arrow or n: setPage(prev => prev + 1), setSelectedIdx(0).
ManagerNextPage ==
  /\ mphase = "preview"
  /\ mpage < MaxPage
  /\ mpage' = mpage + 1
  /\ mselectedIdx' = 0
  /\ UNCHANGED <<mitems, mphase, mfilter, mccreOnly, mselected>>
  /\ UNCHANGED <<bvars, ovars, hvars, cvars, dvars>>

\* Left arrow or p.
ManagerPrevPage ==
  /\ mphase = "preview"
  /\ mpage' = Max(0, mpage - 1)
  /\ mselectedIdx' = 0
  /\ UNCHANGED <<mitems, mphase, mfilter, mccreOnly, mselected>>
  /\ UNCHANGED <<bvars, ovars, hvars, cvars, dvars>>

\* Space: absIdx = page * pageSize + selectedIdx
ToggledIndex == mpage * PageSize + mselectedIdx

\* Space: absIdx is removed from selectedItems if it is there, else added.
ManagerSpace ==
  /\ mphase = "preview"
  /\ ToggledIndex \in mselected \/ Cardinality(mselected) < MaxSelected
  /\ mselected' = IF ToggledIndex \in mselected
                  THEN mselected \ {ToggledIndex}
                  ELSE mselected \cup {ToggledIndex}
  /\ UNCHANGED <<mitems, mphase, mfilter, mccreOnly, mpage, mselectedIdx>>
  /\ UNCHANGED <<bvars, ovars, hvars, cvars, dvars>>

\* a: select every item of the filtered list, or none if as many are selected.
ManagerSelectAll ==
  /\ mphase = "preview"
  /\ mselected' = IF Cardinality(mselected) = FilteredLength
                  THEN {}
                  ELSE 0..(FilteredLength - 1)
  /\ UNCHANGED <<mitems, mphase, mfilter, mccreOnly, mpage, mselectedIdx>>
  /\ UNCHANGED <<bvars, ovars, hvars, cvars, dvars>>

\* Tab: the next species filter; page, cursor and selection are reset.
ManagerTab ==
  /\ mphase = "preview"
  /\ LET tabs == <<"all", "human", "mouse">>
         i == CHOOSE k \in 1..Len(tabs) : tabs[k] = mfilter
     IN  mfilter' = tabs[(i % Len(tabs)) + 1]
  /\ mpage' = 0
  /\ mselectedIdx' = 0
  /\ mselected' = {}
  /\ UNCHANGED <<mitems, mphase, mccreOnly>>
  /\ UNCHANGED <<bvars, ovars, hvars, cvars, dvars>>

\* c: ccreOnly is toggled; page, cursor and selection are reset.
ManagerCcre ==
  /\ mphase = "preview"
  /\ mccreOnly' = ~mccreOnly
  /\ mpage' = 0
  /\ mselectedIdx' = 0
  /\ mselected' = {}
  /\ UNCHANGED <<mitems, mphase, mfilter>>
  /\ UNCHANGED <<bvars, ovars, hvars, cvars, dvars>>

\* d or Enter: startDownload(), setPhase('downloading').
ManagerStartDownload ==
  /\ mphase = "preview"
  /\ mphase' = "downloading"
  /\ UNCHANGED <<mitems, mfilter, mccreOnly, mpage, mselectedIdx, mselected>>
  /\ UNCHANGED <<bvars, ovars, hvars, cvars, dvars>>

\* downloader.call has resolved: setPhase('done').
ManagerDownloaded ==
  /\ mphase = "downloading"
  /\ mphase' = "done"
  /\ UNCHANGED <<mitems, mfilter, mccreOnly, mpage, mselectedIdx, mselected>>
  /\ UNCHANGED <<bvars, ovars, hvars, cvars, dvars>>

\* ---------------------------------------------------------------------- CLI
FlagNames ==
  {"list", "report", "test", "duplicates", "paired", "nonPaired", "fetch",
   "download", "downloadAll"}

NoFlags == [f \in FlagNames |-> FALSE]

\* The program has not been launched.
CliIdle ==
  /\ flags = NoFlags
  /\ cphase = "off"
  /\ cinvoked = <<>>
  /\ cprinted = <<>>
  /\ cexit = -1
  /\ cview = "none"
  /\ cmenuIdx = 0

AppIdle == HookIdle /\ CliIdle /\ ViewsIdle

\* The names of the members of a Response, as characters.
NameCodes(name) ==
  CASE name = "ok" -> <<111, 107>>
    [] name = "data" -> <<100, 97, 116, 97>>
    [] name = "error" -> <<101, 114, 114, 111, 114>>

\* JSON.stringify of a value that is not an object with members.
StringifyPrimitive(val) ==
  CASE val.t = "number" -> val.v
    [] val.t = "string" -> JSONStringifyString(val.v)
    [] val.t = "boolean" -> IF val.v = <<1>> THEN <<116, 114, 117, 101>>
                            ELSE <<102, 97, 108, 115, 101>>
    [] val.t = "null" -> <<110, 117, 108, 108>>
    [] OTHER -> <<Ch.lbrace, Ch.rbrace>>

\* The members of an object, one per line, indented by two spaces and
\* separated by commas.
RECURSIVE StringifyMembers(_)
StringifyMembers(members) ==
  IF members = <<>> THEN <<>>
  ELSE <<Ch.sp, Ch.sp>> \o JSONStringifyString(NameCodes(Head(members)[1]))
         \o <<58, Ch.sp>> \o StringifyPrimitive(Head(members)[2])
         \o (IF Tail(members) = <<>> THEN <<>> ELSE <<44>>) \o <<Ch.nl>>
         \o StringifyMembers(Tail(members))

\* JSON.stringify(result, null, 2)
JSONStringifyPretty(val) ==
  IF val.t = "object" /\ val.v # <<>>
  THEN <<Ch.lbrace, Ch.nl>> \o StringifyMembers(val.v) \o <<Ch.rbrace>>
  ELSE StringifyPrimitive(val)

\* cli.flags.list || cli.flags.report || cli.flags.test || cli.flags.duplicates
IsNonInteractive(f) == f.list \/ f.report \/ f.test \/ f.duplicates

\* Faulty variant of ListAction: --non-paired is looked at first.
ListActionNonPairedFirst(f) ==
  IF f.nonPaired THEN "find_non_paired"
  ELSE IF f.paired THEN "find_paired" ELSE "fetch_mcool"

\* cli.flags.paired ? 'find_paired' : cli.flags.nonPaired ?
\* 'find_non_paired' : 'fetch_mcool'
ListAction(f) ==
  IF f.paired THEN "find_paired"
  ELSE IF f.nonPaired THEN "find_non_paired" ELSE "fetch_mcool"

\* The if / else if chain of the non-interactive branch.
DirectAction(f) ==
  IF f.list THEN ListAction(f)
  ELSE IF f.report THEN "generate_report"
  ELSE IF f.test THEN "test_download"
  ELSE "check_duplicates"

\* The program is launched with some flags.
CliStart ==
  /\ flags \in [FlagNames -> BOOLEAN]
  /\ cphase = "start"
  /\ cinvoked = <<>>
  /\ cprinted = <<>>
  /\ cexit = -1
  /\ cview = "none"
  /\ cmenuIdx = 0

\* The entry point: the non-interactive branch up to its await, or the
\* render of App with the effects of the view it mounts (FetchData calls
\* fetch_all_data when it is mounted, MainMenu calls nothing).
CliDispatch ==
  /\ cphase = "start"
  /\ IF IsNonInteractive(flags)
     THEN /\ cinvoked' = Append(cinvoked, DirectAction(flags))
          /\ cphase' = "awaiting"
          /\ cview' = cview
     ELSE /\ cview' = IF flags.fetch THEN "fetch" ELSE "menu"
          /\ cinvoked' = IF flags.fetch THEN Append(cinvoked, "fetch_all_data")
                         ELSE cinvoked
          /\ cphase' = IF flags.fetch THEN "fetching" ELSE "ui"
  /\ UNCHANGED <<flags, cprinted, cexit, cmenuIdx, bvars, ovars, hvars, wvars>>

\* Faulty variant of CliSettle: a Response that is not ok ends the process
\* with status 1.
CliSettleFailsNonOk(r) ==
  /\ cphase = "awaiting"
  /\ cprinted' = Append(cprinted, JSONStringifyPretty(r))
  /\ cexit' = IF r.t # "null" /\ Truthy(Get(r, "ok")) THEN 0 ELSE 1
  /\ cphase' = "exited"
  /\ UNCHANGED <<flags, cinvoked, cview, cmenuIdx, bvars, ovars, hvars, wvars>>

\* The non-interactive branch from its await on, pythonCall having resolved
\* with r: console.log(JSON.stringify(result, null, 2)); process.exit(0).
CliSettle(r) ==
  /\ cphase = "awaiting"
  /\ cprinted' = Append(cprinted, JSONStringifyPretty(r))
  /\ cexit' = 0
  /\ cphase' = "exited"
  /\ UNCHANGED <<flags, cinvoked, cview, cmenuIdx, bvars, ovars, hvars, wvars>>

\* ------------------------------------------------------------ App navigation
\* type View
Views ==
  {"menu", "dashboard", "browse", "download", "stats", "query", "fetch", "config"}

\* MENU_ITEMS, by key
MenuItems ==
  <<"dashboard", "browse", "download", "stats", "query", "fetch", "config">>

\* The inputs of the operator: q, Ctrl-C, Escape, Enter, the arrows, the
\* digits 1 to 8 and one other character.
DigitKeys == {"1", "2", "3", "4", "5", "6", "7", "8"}
Keys == {"q", "ctrl-c", "escape", "return", "up", "down", "x"} \cup DigitKeys

\* parseInt(input, 10) for a digit key
ParseInt(key) ==
  CASE key = "1" -> 1 [] key = "2" -> 2 [] key = "3" -> 3 [] key = "4" -> 4
    [] key = "5" -> 5 [] key = "6" -> 6 [] key = "7" -> 7 [] key = "8" -> 8

\* The worker action the component of a view calls when it is mounted.
MountActions(view) ==
  CASE view \in {"dashboard", "stats"} -> <<"get_stats">>
    [] view = "browse" -> <<"list_cell_lines">>
    [] view = "download" -> <<"list_download_jobs">>
    [] view = "fetch" -> <<"fetch_all_data">>
    [] view = "config" -> <<"get_config">>
    [] OTHER -> <<>>

\* The keys on which a child view, at its top level, calls its back callback.
BackKeys(view) == IF view = "query" THEN {"escape"} ELSE {"escape", "q"}

\* Faulty variant of QuitHandler: the view is not looked at.
QuitHandlerAnyView(view, key) == key \in {"q", "ctrl-c"}

\* App's useInput handler: view === 'menu' && (input === 'q' || (key.ctrl &&
\* input === 'c'))
QuitHandler(view, key) == view = "menu" /\ key \in {"q", "ctrl-c"}

\* exit() of useApp: the interface is unmounted and the process ends.
AppExit ==
  /\ cphase' = "exited"
  /\ cexit' = 0
  /\ UNCHANGED <<cview, cmenuIdx, cinvoked>>

\* handleNavigate(newView) / handleBack(): the view is replaced and the
\* component of the new view is mounted.
Navigate(view) ==
  /\ Len(cinvoked) + Len(MountActions(view)) <= MaxMounts
  /\ cview' = view
  /\ cinvoked' = cinvoked \o MountActions(view)
  /\ cphase' = IF view = "fetch" THEN "fetching" ELSE "ui"
  /\ UNCHANGED <<cmenuIdx, cexit>>

\* handleFetchDone(): exit after a launch with --fetch, else back to the menu.
HandleFetchDone ==
  IF flags.fetch THEN AppExit ELSE Navigate("menu")

\* MainMenu's useInput handler.
MenuKey(key) ==
  CASE key = "up" ->
         /\ cmenuIdx' = IF cmenuIdx - 1 < 0 THEN 0 ELSE cmenuIdx - 1
         /\ UNCHANGED <<cview, cphase, cinvoked, cexit>>
    [] key = "down" ->
         /\ cmenuIdx' = Min(Len(MenuItems) - 1, cmenuIdx + 1)
         /\ UNCHANGED <<cview, cphase, cinvoked, cexit>>
    [] key = "return" -> Navigate(MenuItems[cmenuIdx + 1])
    [] key \in DigitKeys /\ ParseInt(key) <= Len(MenuItems) ->
         Navigate(MenuItems[ParseInt(key)])
    [] OTHER -> UNCHANGED <<cview, cphase, cinvoked, cexit, cmenuIdx>>

\* One input of the operator while the interface is displayed.  render() is
\* called without options, so Ink itself exits on Ctrl-C and does not pass
\* it to the useInput handlers; every other input goes to the handler of App
\* and to the handler of the component of the current view.  top says
\* whether that component is at its top level, where its back keys call the
\* back callback, or in a sub-view of its own that takes the key.
AppKey(key, top) ==
  /\ cphase \in {"ui", "fetching"}
  /\ IF key = "ctrl-c" \/ QuitHandler(cview, key) THEN AppExit
     ELSE IF cview = "menu" THEN MenuKey(key)
     ELSE IF cview = "fetch"
     THEN IF cphase = "ui" /\ key \in {"escape", "q", "return"}
          THEN HandleFetchDone
          ELSE UNCHANGED <<cview, cphase, cinvoked, cexit, cmenuIdx>>
     ELSE IF top /\ key \in BackKeys(cview)
     THEN Navigate("menu")
     ELSE UNCHANGED <<cview, cphase, cinvoked, cexit, cmenuIdx>>
  /\ UNCHANGED <<flags, cprinted, bvars, ovars, hvars, wvars>>

\* FetchData's call has returned, pythonCall having resolved with r: with a
\* result the phase is 'done' and the timer calls onDone, which is
\* handleFetchDone; without one the error panel waits for a key.
FetchDone(r) ==
  /\ cphase = "fetching"
  /\ IF Truthy(HookBody(r).ret)
     THEN HandleFetchDone
     ELSE cphase' = "ui" /\ UNCHANGED <<cview, cinvoked, cexit, cmenuIdx>>
  /\ UNCHANGED <<flags, cprinted, bvars, ovars, hvars, wvars>>

\* ---------------------------------------------------------- specifications
vars == <<bvars, ovars, avars>>

\* The bridge with workers that answer every request they read, in order,
\* with one line each.
Init == BridgeInit /\ OneShotIdle /\ AppIdle

Next ==
  \/ Start
  \/ \E a \in Actions : Call(a)
  \/ Stop
  \/ \E g \in Workers : \E n \in 1..Len(stdout[g]) : StdoutData(g, n)
  \/ \E g \in Workers : WorkerClose(g)
  \/ \E g \in Workers : WorkerRespond(g)
  \/ \E g \in Workers : WorkerExit(g)

Spec == Init /\ [][Next]_vars

\* The bridge with its one lazily spawned worker, which may also write lines
\* that answer no request.
NextNoisy ==
  \/ \E a \in Actions : Call(a)
  \/ \E g \in Workers : \E n \in 1..Len(stdout[g]) : StdoutData(g, n)
  \/ \E g \in Workers : WorkerClose(g)
  \/ \E g \in Workers : WorkerRespond(g)
  \/ \E g \in Workers : \E line \in NoiseLines : WorkerNoise(g, line)
  \/ \E g \in Workers : WorkerExit(g)

SpecNoisy == Init /\ [][NextNoisy]_vars

\* The bridge on a host where python3 cannot be launched: every spawn fails,
\* so no worker ever reads, writes or exits.
NextSpawnFail ==
  \/ Start
  \/ \E a \in Actions : Call(a)
  \/ Stop
  \/ \E g \in Workers : SpawnError(g)

SpecSpawnFail == Init /\ [][NextSpawnFail]_vars

\* The bridge, built with or without a stderr observer, after start(): the
\* worker has written some text to its stderr, which is delivered in chunks
\* of any sizes between the calls, the responses and the stdout chunks.
ErrBytes == {Ch.x, Ch.lead, Ch.tail}

\* The byte sequence is the UTF-8 encoding of a text.
IsUTF8(bytes) == UTF8Encode(BufferToString(bytes)) = bytes

InitStderr ==
  /\ AppIdle
  /\ OneShotIdle
  /\ child = 1
  /\ buffer = <<>>
  /\ pending = <<>>
  /\ nextId = 1
  /\ calls = [i \in Ids |-> Unissued]
  /\ wstate = [g \in Workers |-> IF g = 1 THEN "alive" ELSE "none"]
  /\ stdin = [g \in Workers |-> <<>>]
  /\ stdout = [g \in Workers |-> <<>>]
  /\ noise = <<>>
  /\ whole = <<>>
  /\ hasObserver \in BOOLEAN
  /\ \E e \in {b \in ByteSeqs(ErrBytes, MaxErr) : IsUTF8(b)} :
       stderr = [g \in Workers |-> IF g = 1 THEN e ELSE <<>>]
  /\ observed = <<>>
  /\ uncaught = FALSE
  /\ stopped = {}
  /\ abandoned = {}

NextStderr ==
  \/ \E a \in Actions : Call(a)
  \/ \E g \in Workers : \E n \in 1..Len(stdout[g]) : StdoutData(g, n)
  \/ \E g \in Workers : \E n \in 1..Len(stderr[g]) : StderrData(g, n)
  \/ \E g \in Workers : WorkerClose(g)
  \/ \E g \in Workers : WorkerRespond(g)
  \/ \E g \in Workers : WorkerExit(g)

SpecStderr == InitStderr /\ [][NextStderr]_vars

\* Everything that happens around the pending map: the bridge after start(),
\* the worker having written one character to its stderr; calls, stop(),
\* responses, lines that answer no request, stdout and stderr chunks, exits
\* and close events in any order.  All the calls have the same action, the
\* lines that answer no request are not JSON, and a data event delivers all
\* that its pipe holds.
InitQueue ==
  /\ InitStderr
  /\ hasObserver
  /\ stderr[1] = <<Ch.x>>

NextQueue ==
  \/ Call(1)
  \/ Stop
  \/ \E g \in Workers : StdoutData(g, Len(stdout[g]))
  \/ \E g \in Workers : StderrData(g, Len(stderr[g]))
  \/ \E g \in Workers : WorkerClose(g)
  \/ \E g \in Workers : WorkerRespond(g)
  \/ \E g \in Workers : WorkerNoise(g, <<Ch.x, Ch.nl>>)
  \/ \E g \in Workers : WorkerExit(g)

SpecQueue == InitQueue /\ [][NextQueue]_vars

\* The bridge with its one lazily spawned worker and callers that may stop
\* awaiting a call at any time before it is settled.
NextAbandon ==
  \/ \E a \in Actions : Call(a)
  \/ \E i \in Ids : Abandon(i)
  \/ \E g \in Workers : \E n \in 1..Len(stdout[g]) : StdoutData(g, n)
  \/ \E g \in Workers : WorkerClose(g)
  \/ \E g \in Workers : WorkerRespond(g)
  \/ \E g \in Workers : WorkerExit(g)

SpecAbandon == Init /\ [][NextAbandon]_vars

\* Line framing: MaxCalls calls are pending on worker 1, which has written
\* the byte stream whole; the stream is delivered in chunks of any sizes.
StreamBytes == {Ch.nl, Ch.quote, 49, Ch.lead, Ch.tail}

AllPending == [i \in Ids |-> [st |-> "pending", val |-> NoValue, err |-> "",
                              action |-> 1, to |-> 1]]

InitFramer ==
  /\ AppIdle
  /\ OneShotIdle
  /\ child = 1
  /\ buffer = <<>>
  /\ pending = [k \in 1..MaxCalls |-> k]
  /\ nextId = MaxCalls + 1
  /\ calls = AllPending
  /\ wstate = [g \in Workers |-> IF g = 1 THEN "alive" ELSE "none"]
  /\ stdin = [g \in Workers |-> <<>>]
  /\ whole \in ByteSeqs(StreamBytes, MaxStream)
  /\ stdout = [g \in Workers |-> IF g = 1 THEN whole ELSE <<>>]
  /\ noise = <<>>
  /\ stderr = [g \in Workers |-> <<>>]
  /\ hasObserver = FALSE
  /\ observed = <<>>
  /\ uncaught = FALSE
  /\ stopped = {}
  /\ abandoned = {}

NextFramer == \E n \in 1..Len(stdout[1]) : StdoutData(1, n)

SpecFramer == InitFramer /\ [][NextFramer]_vars

\* One pythonCall, from the spawn to the close event.
NextOneShot ==
  \/ \E b \in OutBytes : OWorkerWrite(b)
  \/ OWorkerWriteErr
  \/ \E n \in 1..Len(opipe) : OStdoutData(n)
  \/ \E n \in 1..Len(oerrpipe) : OStderrData(n)
  \/ \E c \in ExitCodes : OWorkerExit(c)
  \/ OSpawnError
  \/ OClose

InitOneShot == BridgeInit /\ OneShotInit /\ AppIdle

SpecOneShot == InitOneShot /\ [][NextOneShot]_vars

\* One pythonCall on an event loop that runs the handler of every event that
\* has occurred; the child is free never to write and never to exit, and
\* pythonCall arms no timer.
FairSpecOneShot ==
  /\ InitOneShot
  /\ [][NextOneShot]_vars
  /\ WF_vars(\E n \in 1..Len(opipe) : OStdoutData(n))
  /\ WF_vars(\E n \in 1..Len(oerrpipe) : OStderrData(n))
  /\ WF_vars(OClose)

\* One pythonCall whose child has ended after writing long outputs: a stdout
\* and a stderr around and past TailLimit characters, each delivered in one
\* chunk before the close event.
Fill(n) == [k \in 1..n |-> Ch.x]

TailLens == (0..1) \cup ((TailLimit - 1)..(TailLimit + MaxOver))

EndBytes == {Ch.nl, Ch.x, 49}

InitTail ==
  /\ AppIdle
  /\ BridgeInit
  /\ ophase = "exited"
  /\ ocode \in ExitCodes
  /\ opipe \in {Fill(n) \o e : n \in TailLens, e \in ByteSeqs(EndBytes, 2)}
  /\ oerrpipe \in {Fill(n) : n \in TailLens}
  /\ ostdout = <<>>
  /\ ostderr = <<>>
  /\ oresult = [st |-> "pending", resp |-> NoResponse]

NextTail ==
  \/ OStdoutData(Len(opipe))
  \/ OStderrData(Len(oerrpipe))
  \/ OClose

SpecTail == InitTail /\ [][NextTail]_vars

\* The hook usePython in one component: calls of call, which may overlap,
\* each settled with one of the values pythonCall resolves with, and reset.
InitHook == BridgeInit /\ OneShotIdle /\ HookIdle /\ CliIdle /\ ViewsIdle

NextHook ==
  \/ \E k \in HookCalls : HookCall(k)
  \/ \E k \in HookCalls, r \in PythonCallValues : HookSettle(k, r)
  \/ HookReset

SpecHook == InitHook /\ [][NextHook]_vars

\* One launch of the program with any combination of the flags, up to the
\* exit of the process or to the point where the interface waits for the
\* operator.
InitCli == BridgeInit /\ OneShotIdle /\ HookIdle /\ CliStart /\ ViewsIdle

NextCli ==
  \/ CliDispatch
  \/ \E r \in PythonCallValues : CliSettle(r)
  \/ \E r \in PythonCallValues : FetchDone(r)

SpecCli == InitCli /\ [][NextCli]_vars

\* The bridge whose workers are replaced by stop() followed by call() only:
\* start() is left to call(), so that at most one worker is alive.
NextRespawn ==
  \/ \E a \in Actions : Call(a)
  \/ Stop
  \/ \E g \in Workers : \E n \in 1..Len(stdout[g]) : StdoutData(g, n)
  \/ \E g \in Workers : WorkerClose(g)
  \/ \E g \in Workers : WorkerRespond(g)
  \/ \E g \in Workers : WorkerExit(g)

SpecRespawn == Init /\ [][NextRespawn]_vars

\* The hook as DownloadJobs uses it: the poll and the key handlers issue
\* calls on one instance without waiting for the calls in flight, and nothing
\* calls reset.
NextOverlap ==
  \/ \E k \in HookCalls : HookCall(k)
  \/ \E k \in HookCalls, r \in PythonCallValues : HookSettle(k, r)

SpecOverlap == InitHook /\ [][NextOverlap]_vars

\* The interface after an interactive launch, with or without --fetch: the
\* operator's inputs and the end of the fetches.
InitNav ==
  /\ BridgeInit /\ OneShotIdle /\ HookIdle /\ ViewsIdle
  /\ flags \in {NoFlags, [NoFlags EXCEPT !.fetch = TRUE]}
  /\ cphase = "start"
  /\ cinvoked = <<>>
  /\ cprinted = <<>>
  /\ cexit = -1
  /\ cview = "none"
  /\ cmenuIdx = 0

NextNav ==
  \/ CliDispatch
  \/ \E key \in Keys, top \in BOOLEAN : AppKey(key, top)
  \/ \E r \in PythonCallValues : FetchDone(r)

SpecNav == InitNav /\ [][NextNav]_vars

\* DownloadJobs: mounting, the lists of jobs that arrive, moving the cursor,
\* expanding and collapsing jobs, unmounting, and the ticks of the intervals
\* that are alive.
NextJobs ==
  \/ JobsMount
  \/ \E n \in 0..MaxJobs : JobsListed(n)
  \/ JobsUp
  \/ JobsDown
  \/ JobsExpand
  \/ JobsCollapse
  \/ JobsUnmount
  \/ \E t \in dtimers : JobsTick(t)

SpecJobs == Init /\ [][NextJobs]_vars

\* DownloadManager: the scan, the keys of the preview, the download.
NextManager ==
  \/ ManagerMount
  \/ \E items \in ItemLists : ManagerScanned(items)
  \/ ManagerBack
  \/ ManagerUp
  \/ ManagerDown
  \/ ManagerNextPage
  \/ ManagerPrevPage
  \/ ManagerSpace
  \/ ManagerSelectAll
  \/ ManagerTab
  \/ ManagerCcre
  \/ ManagerStartDownload
  \/ ManagerDownloaded

SpecManager == Init /\ [][NextManager]_vars

\* ------------------------------------------------------------------ claims
\* The value of the line a worker answers the request of call i with.
OwnResponse(i) == [t |-> "number", v |-> <<48 + calls[i].action>>]

\* C1: FIFO end to end.  On a bridge that has spawned one worker, which
\* answers the requests it reads in order with one line each, a call that is
\* resolved is resolved with the answer to its own request, and once the
\* worker's output has been delivered exactly the first k calls issued are
\* resolved, k being the number of requests the worker has answered, whatever
\* the interleaving of calls, answers and chunks.
C1_FifoEndToEnd ==
  NumSpawned <= 1 =>
    /\ \A i \in Ids : calls[i].st = "resolved" => calls[i].val = OwnResponse(i)
    /\ (wstate[1] = "alive" /\ stdout[1] = <<>>) =>
         \A i \in 1..(nextId - 1) :
           calls[i].st = "resolved" <=> i <= nextId - 1 - Len(stdin[1])

\* C1 witness: calls A then B with different actions, both resolved by the
\* one worker.
C1_Witness ==
  /\ NumSpawned = 1
  /\ calls[1].st = "resolved" /\ calls[2].st = "resolved"
  /\ calls[1].action # calls[2].action
  /\ calls[1].val = OwnResponse(1) /\ calls[2].val = OwnResponse(2)

\* The complete lines _processBuffer sees when the first n bytes in flight
\* from worker g arrive as one chunk.
CompleteLines(g, n) ==
  Front(Split(buffer \o BufferToString(SubSeq(stdout[g], 1, n))))

\* A line that is not blank and parses as JSON.
IsResponseLine(l) == Trim(l) # <<>> /\ JSONValid(l)

\* C2: in every run of _processBuffer the complete non-blank lines that
\* parse as JSON resolve, one each and in order, the oldest pending requests
\* (the smallest ids in the map) with the values of the lines, and exactly
\* those records are removed; nothing else changes, whatever the lines hold.
C2_OldestPendingResolved ==
  [][\A g \in Workers : \A n \in 1..Len(stdout[g]) :
       StdoutData(g, n) =>
         LET good == SelectSeq(CompleteLines(g, n), IsResponseLine)
             m == Min(Len(good), Len(pending))
         IN /\ pending' = SubSeq(pending, m + 1, Len(pending))
            /\ \A k \in 1..m :
                 /\ calls'[pending[k]].st = "resolved"
                 /\ calls'[pending[k]].val = JSONParse(good[k])
                 /\ \A j \in (k + 1)..Len(pending) : pending[k] < pending[j]
            /\ \A i \in Ids \ {pending[k] : k \in 1..m} :
                 calls'[i] = calls[i]]_vars

\* C2 witness: the oldest call was resolved by a line that is not the
\* answer to its request, while a younger call is still pending.
C2_Witness ==
  /\ calls[1].st = "resolved" /\ calls[1].val # OwnResponse(1)
  /\ calls[2].st = "pending"
  /\ pending = <<2>>

\* C3: when a worker's close event fires, every promise that is pending is
\* rejected with 'Python process closed', the pending map is empty afterwards,
\* every other promise is left as it is, and a rejected promise never changes
\* again (it is never resolved).
C3_CloseRejectsAll ==
  [][/\ \A g \in Workers : WorkerClose(g) =>
          /\ pending' = <<>>
          /\ \A i \in Ids :
               IF calls[i].st = "pending"
               THEN calls'[i].st = "rejected" /\ calls'[i].err = ClosedMessage
               ELSE calls'[i] = calls[i]
     /\ \A i \in Ids : calls[i].st = "rejected" => calls'[i] = calls[i]]_vars

\* C3 witness: two calls were pending when the worker closed; both are
\* rejected and the map is empty.
C3_Witness ==
  /\ \E g \in Workers : wstate[g] = "closed"
  /\ pending = <<>>
  /\ calls[1].st = "rejected" /\ calls[1].err = ClosedMessage
  /\ calls[2].st = "rejected" /\ calls[2].err = ClosedMessage

\* C4: every call settles.  As a property of states: a pending call always
\* has something left that can settle it, a worker whose close event is
\* still to come (an answer line can only come from such a worker too).
C4_EveryCallSettles ==
  \A i \in Ids :
    calls[i].st = "pending" => \E g \in Workers : wstate[g] \in {"alive", "dead"}

\* C5: a call() made after the close event of the bridge's worker either
\* fails at once or spawns a fresh worker; it is not left pending on the dead
\* worker.
C5_CallAfterExit ==
  [][\A a \in Actions :
       (Call(a) /\ child # 0 /\ wstate[child] = "closed") =>
         \/ calls'[nextId].st # "pending"
         \/ (child' # child /\ wstate'[child'] = "alive")]_vars

\* The bridge is Terminated: it was stopped, or its worker has exited.
Terminated ==
  \/ child = 0 /\ NumSpawned > 0
  \/ child # 0 /\ wstate[child] \in {"dead", "closed"}

\* C6: Terminated is final.  Once the bridge is Terminated no step spawns
\* another worker and the bridge stays Terminated.
C6_TerminatedIsFinal ==
  [][Terminated => (NumSpawned' = NumSpawned /\ Terminated')]_vars

\* The byte stream is a sequence of newline-terminated JSON lines.
IsJSONLines(bytes) ==
  LET lines == Split(BufferToString(bytes))
  IN /\ Last(lines) = <<>>
     /\ \A k \in 1..(Len(lines) - 1) : IsResponseLine(lines[k])

\* C7: framing does not depend on the chunking.  When a stream of
\* newline-terminated JSON lines has been delivered, in whatever chunks, the
\* pending requests have been resolved with the values, and the buffer holds
\* the text, that delivering the whole stream as one chunk gives.
C7_ChunkingIndependent ==
  (stdout[1] = <<>> /\ IsJSONLines(whole)) =>
    LET r == ProcessBuffer(BufferToString(whole),
                           [k \in 1..MaxCalls |-> k], AllPending)
    IN buffer = r.buffer /\ pending = r.pending /\ calls = r.calls

\* C8: a complete line that is blank or is not JSON is dropped: a run of
\* _processBuffer has the effect of the run on the other lines alone (none if
\* there is no other line), no promise is rejected by it, and the buffer is
\* left holding the text after the last newline, so that the lines that
\* follow parse as if the dropped line had not been there.
C8_JunkLinesDropped ==
  [][\A g \in Workers : \A n \in 1..Len(stdout[g]) :
       StdoutData(g, n) =>
         LET text == buffer \o BufferToString(SubSeq(stdout[g], 1, n))
             good == SelectSeq(CompleteLines(g, n), IsResponseLine)
             r == ProcessLines(good, [pending |-> pending, calls |-> calls])
         IN /\ pending' = r.pending
            /\ calls' = r.calls
            /\ good = <<>> => (pending' = pending /\ calls' = calls)
            /\ \A i \in Ids : calls'[i].st = "rejected" => calls[i].st = "rejected"
            /\ buffer' = Last(Split(text))]_vars

\* C8 witness: the worker wrote the line "x" between its two answers; the
\* line was dropped and both calls are resolved with their own answers.
C8_Witness ==
  /\ noise = << <<Ch.x, Ch.nl>> >>
  /\ stdout[1] = <<>> /\ buffer = <<>> /\ stdin[1] = <<>>
  /\ calls[1].st = "resolved" /\ calls[1].val = OwnResponse(1)
  /\ calls[2].st = "resolved" /\ calls[2].val = OwnResponse(2)
  /\ calls[1].action # calls[2].action

\* The lines of the accumulated stdout that hold a character other than
\* white space.
VisibleLines == SelectSeq(Split(ostdout), LAMBDA l : Trim(l) # <<>>)

\* C9: after the close event of a child that was spawned, if the last
\* non-empty line of the accumulated stdout parses as JSON then pythonCall has
\* returned the value of that line, whatever the lines before it hold and
\* whatever the exit code.
C9_LastLineReturned ==
  (ophase = "closed" /\ ocode >= 0 /\ VisibleLines # <<>>
     /\ JSONValid(Last(VisibleLines))) =>
    oresult = [st |-> "resolved",
               resp |-> ParsedResponse(JSONParse(Last(VisibleLines)))]

\* C9 witness: the child wrote a noise line, then a JSON line, and exited
\* with code 0; pythonCall returned the value of the JSON line.
C9_Witness ==
  /\ ophase = "closed" /\ ocode = 0
  /\ ostdout = <<Ch.x, Ch.nl, 49, Ch.nl>>
  /\ oresult.st = "resolved"
  /\ oresult.resp.kind = "parsed"
  /\ oresult.resp.val = [t |-> "number", v |-> <<49>>]

\* C10: when the child exits with a non-zero code without having written
\* anything to stdout, pythonCall returns the failure Response whose error
\* text embeds the exit code.
C10_EmptyOutputFailure ==
  (ophase = "closed" /\ ocode > 0 /\ ostdout = <<>>) =>
    /\ oresult.st = "resolved"
    /\ oresult.resp.kind = "exit-failure"
    /\ oresult.resp.code = ocode

\* t is the last TailLimit characters of s, or all of s when s is shorter.
IsTailOf(t, s) ==
  /\ Len(t) = Min(Len(s), TailLimit)
  /\ \A k \in 1..Len(t) : t[k] = s[Len(s) - Len(t) + k]

\* C11: after the close event of a child that was spawned, if the last
\* non-empty line of the accumulated stdout does not parse as JSON then
\* pythonCall has returned the failure Response that embeds the exit code, the
\* last TailLimit characters at most of the accumulated stderr and the last
\* TailLimit characters at most of the accumulated stdout, however long the
\* two are.
C11_FailureTails ==
  (ophase = "closed" /\ ocode >= 0 /\ VisibleLines # <<>>
     /\ ~JSONValid(Last(VisibleLines))) =>
    /\ oresult.st = "resolved"
    /\ oresult.resp.kind = "exit-failure"
    /\ oresult.resp.code = ocode
    /\ IsTailOf(oresult.resp.stderr, ostderr)
    /\ IsTailOf(oresult.resp.stdout, ostdout)

\* C11 witness: the failure Response of a call whose stdout and stderr are
\* both longer than TailLimit.
C11_Witness ==
  /\ ophase = "closed" /\ ocode = 1
  /\ Len(ostdout) > TailLimit /\ Len(ostderr) > TailLimit
  /\ oresult.st = "resolved"
  /\ oresult.resp.kind = "exit-failure"
  /\ Len(oresult.resp.stdout) = TailLimit
  /\ Len(oresult.resp.stderr) = TailLimit

\* pythonCall has to build the Response itself: the child could not be
\* spawned, or its stdout has no non-blank line, or the last one is not JSON.
OneShotFailed ==
  ocode = -2 \/ VisibleLines = <<>> \/ ~JSONValid(Last(VisibleLines))

\* C12: the promise of pythonCall is never rejected; after the close event it
\* is resolved; and whenever pythonCall has to build the Response itself (spawn
\* error, no output line, unparseable last line, with any exit code) the value
\* is one of its two failure Responses with ok false.
C12_OnlyResolvedOkFalse ==
  /\ oresult.st \in {"pending", "resolved"}
  /\ (ophase = "closed" => oresult.st = "resolved")
  /\ (ophase = "closed" /\ OneShotFailed) =>
       oresult.resp.kind \in {"exit-failure", "spawn-failure"}

\* C13: once the spawn of the child has failed, pythonCall has returned the
\* failure Response that carries the text of the spawn error, and it still
\* has after the close event that follows the error event.
C13_SpawnFailureKept ==
  (ocode = -2) =>
    /\ ophase \in {"failed", "closed"}
    /\ oresult.st = "resolved"
    /\ oresult.resp.kind = "spawn-failure"
    /\ oresult.resp.text = SpawnErrorText

\* C13 witness: the close event has followed the spawn error and pythonCall
\* has returned the spawn failure.
C13_Witness ==
  /\ ophase = "closed" /\ ocode = -2
  /\ oresult = [st |-> "resolved", resp |-> SpawnFailure]

\* C14: every pythonCall terminates: its child is ended (by itself or, at
\* the timeout, by force) and its promise is settled.
C14_TimeoutTerminates == <>(ophase = "closed" /\ oresult.st = "resolved")

\* A parsed value has the shape of a Response: an object with a member ok.
\* The members of a parsed object are v; the empty object has none.
IsResponseShape(value) ==
  value.t = "object" /\ \E k \in 1..Len(value.v) : value.v[k][1] = "ok"

\* C15: when the last non-empty line of stdout parses as JSON, pythonCall
\* returns the parsed value only if it has the shape of a Response; a number,
\* a string or the empty object is answered with a failure Response.
C15_IllShapedIsMalformed ==
  (ophase = "closed" /\ ocode >= 0 /\ VisibleLines # <<>>
     /\ oresult.st = "resolved" /\ oresult.resp.kind = "parsed") =>
    IsResponseShape(oresult.resp.val)

\* C16: once the spawn of a persistent worker has failed, no 'error' event has
\* gone without a listener and every call that was sent to that worker is
\* settled (rejected, or resolved with a failure), none is left pending.
C16_SpawnFailureReported ==
  \A g \in Workers :
    wstate[g] = "failed" =>
      /\ ~uncaught
      /\ \A i \in Ids : calls[i].to = g => calls[i].st \in {"resolved", "rejected"}

\* The handle stop() finds is already terminated: no worker was started or
\* stop() was called before (child is null), or the worker has exited.
AlreadyTerminated == child = 0 \/ wstate[child] \in {"dead", "closed"}

\* C17: stop() called on an already terminated handle changes nothing: not
\* the handle, not the streams or the state of any worker, not the buffer,
\* the pending map or the counter.
C17_StopOnTerminatedNoOp ==
  [][(Stop /\ AlreadyTerminated) =>
       UNCHANGED <<child, buffer, pending, nextId, calls, wstate, stdin, stdout>>]_vars

\* C18: a call that was pending when stop() ended the worker is never
\* resolved afterwards: it stays pending until the close event rejects it.
C18_StoppedNeverResolved ==
  \A i \in stopped : calls[i].st \in {"pending", "rejected"}

\* C19: the delivery of a stderr chunk leaves the buffer, the pending map,
\* the counter and the worker handle as they are and, when the bridge was
\* given an observer, passes it exactly one string, which holds the bytes of
\* the chunk unchanged.
C19_StderrForwardedVerbatim ==
  [][\A g \in Workers : \A n \in 1..Len(stderr[g]) :
       StderrData(g, n) =>
         /\ UNCHANGED <<buffer, pending, nextId, child, calls>>
         /\ hasObserver =>
              /\ Len(observed') = Len(observed) + 1
              /\ SubSeq(observed', 1, Len(observed)) = observed
              /\ UTF8Encode(Last(observed')) = SubSeq(stderr[g], 1, n)]_vars

\* The ids of the records of the pending map.
PendingIds == {pending[k] : k \in 1..Len(pending)}

\* C20: in every state the pending map holds the ids of exactly the calls
\* that were issued and are neither resolved nor rejected, each once and in
\* the order of issue; and in every step a record is added only by call(),
\* records are removed only by a stdout chunk, as many as it completes lines
\* that parse as JSON, or by the close event; stop(), a stderr chunk and a
\* chunk whose lines are all dropped leave the map as it is.
C20_PendingMapExact ==
  /\ [](/\ PendingIds = {i \in Ids : calls[i].st = "pending"}
        /\ \A j, k \in 1..Len(pending) : j < k => pending[j] < pending[k])
  /\ [][/\ PendingIds' \ PendingIds # {} => \E a \in Actions : Call(a)
        /\ PendingIds \ PendingIds' # {} =>
             \/ \E g \in Workers : WorkerClose(g)
             \/ \E g \in Workers : \E n \in 1..Len(stdout[g]) :
                  /\ StdoutData(g, n)
                  /\ Cardinality(PendingIds \ PendingIds')
                       <= Len(SelectSeq(CompleteLines(g, n), IsResponseLine))
        /\ Stop => pending' = pending
        /\ \A g \in Workers : \A n \in 1..Len(stderr[g]) :
             StderrData(g, n) => pending' = pending
        /\ \A g \in Workers : \A n \in 1..Len(stdout[g]) :
             (StdoutData(g, n)
                /\ SelectSeq(CompleteLines(g, n), IsResponseLine) = <<>>) =>
               pending' = pending]_vars

\* C20 witness: two calls were issued, a line that is not JSON was delivered
\* and dropped, a stderr chunk was passed to the observer, stop() was called
\* and nothing is in flight: both records are still in the map, in order.
C20_Witness ==
  /\ pending = <<1, 2>>
  /\ stopped = {1, 2}
  /\ noise # <<>>
  /\ observed # <<>>
  /\ buffer = <<>>
  /\ \A g \in Workers : stdout[g] = <<>> /\ stderr[g] = <<>>

\* The requests of the calls sent to worker g, in the order of their ids.
RECURSIVE IssuedFrom(_, _)
IssuedFrom(g, i) ==
  IF i > MaxCalls THEN <<>>
  ELSE (IF calls[i].st # "unissued" /\ calls[i].to = g
        THEN <<Request(calls[i].action)>> ELSE <<>>) \o IssuedFrom(g, i + 1)

IsSuffix(t, s) ==
  Len(t) <= Len(s) /\ t = SubSeq(s, Len(s) - Len(t) + 1, Len(s))

\* C21: a call() to a live worker appends exactly one write to the input
\* stream of that worker and touches no other stream; the bytes of the write
\* are one line, their only newline is the last byte; and the writes a live
\* worker has still to read are the requests of the calls sent to it, in the
\* order of their ids.
C21_OneLinePerCall ==
  /\ [](\A g \in Workers :
          wstate[g] = "alive" => IsSuffix(stdin[g], IssuedFrom(g, 1)))
  /\ [][\A a \in Actions :
          Call(a) =>
            LET line == RequestLine(Request(a))
            IN /\ \A g \in Workers : g # child' => stdin'[g] = stdin[g]
               /\ wstate'[child'] = "alive" =>
                    stdin'[child'] = Append(stdin[child'], Request(a))
               /\ Last(line) = Ch.nl
               /\ \A k \in 1..(Len(line) - 1) : line[k] # Ch.nl]_vars

\* C21 witness: two calls were made, the second with the action name that
\* holds a newline; the worker has both requests to read, in that order.
C21_Witness ==
  /\ pending = <<1, 2>>
  /\ calls[1].action = 1 /\ calls[2].action = 2
  /\ stdin[1] = <<Request(1), Request(2)>>

\* C22: at most one worker process of the bridge is alive.
C22_AtMostOneLiveWorker ==
  Cardinality({g \in Workers : wstate[g] = "alive"}) <= 1

\* C26: the ids issued so far are exactly 1 .. nextId - 1 and the pending map
\* lists its ids in increasing order; the counter never decreases, it moves
\* only in call(), by one, and call() gives the new record the id nextId,
\* which no call had before; so also after stop() and a new spawn.
C26_IdsStrictlyIncreasing ==
  /\ [](/\ \A i \in Ids : calls[i].st # "unissued" <=> i < nextId
        /\ \A j, k \in 1..Len(pending) : j < k => pending[j] < pending[k]
        /\ \A k \in 1..Len(pending) : pending[k] < nextId)
  /\ [][/\ nextId' >= nextId
        /\ nextId' # nextId => \E a \in Actions : Call(a)
        /\ \A a \in Actions :
             Call(a) => /\ nextId' = nextId + 1
                        /\ calls[nextId].st = "unissued"
                        /\ pending' = Append(pending, nextId)]_vars

\* C26 witness: the first call went to worker 1, which was stopped; the
\* second call spawned worker 2 and got the id 2.
C26_Witness ==
  /\ nextId = 3
  /\ calls[1].to = 1 /\ calls[2].to = 2
  /\ 1 \in stopped
  /\ pending = <<1, 2>>

\* C23: an abandoned call keeps its record in the pending map until a
\* response line or the close event settles it; every call that is resolved,
\* abandoned or not, issued before or after an abandoned one, is resolved
\* with the answer to its own request; and once the worker's output has been
\* delivered exactly the first k calls are resolved, k being the number of
\* requests the worker has answered.
C23_AbandonedKeepsSlot ==
  /\ \A i \in abandoned : calls[i].st = "pending" => i \in PendingIds
  /\ \A i \in Ids : calls[i].st = "resolved" => calls[i].val = OwnResponse(i)
  /\ (wstate[1] = "alive" /\ stdout[1] = <<>>) =>
       \A i \in 1..(nextId - 1) :
         calls[i].st = "resolved" <=> i <= nextId - 1 - Len(stdin[1])

\* C23 witness: the first call was abandoned while pending; its response
\* was consumed by its record, and the second call, which has another
\* action, is resolved with its own answer.
C23_Witness ==
  /\ abandoned = {1}
  /\ calls[1].st = "resolved" /\ calls[2].st = "resolved"
  /\ calls[1].action # calls[2].action
  /\ calls[2].val = OwnResponse(2)

\* The bytes the bridge has received from worker 1 so far.
Received == SubSeq(whole, 1, Len(whole) - Len(stdout[1]))

\* C25: after every stdout chunk the read buffer holds no newline; it is
\* empty when the bytes received so far end with a newline; it is the bytes
\* after the last newline received when these are one-byte characters; and
\* each chunk leaves in it the text after the last newline of the old buffer
\* followed by the decoded chunk.
C25_BufferHoldsTail ==
  /\ [](/\ \A k \in 1..Len(buffer) : buffer[k] # Ch.nl
        /\ (Received # <<>> /\ Last(Received) = Ch.nl) => buffer = <<>>
        /\ (\A k \in 1..Len(Last(Split(Received))) :
              Last(Split(Received))[k] < 128) =>
             buffer = Last(Split(Received)))
  /\ [][\A n \in 1..Len(stdout[1]) :
          StdoutData(1, n) =>
            buffer' = Last(Split(buffer \o BufferToString(SubSeq(stdout[1], 1, n))))]_vars

\* C25 witness: a complete line and the unterminated digit after it were
\* received; the buffer holds the digit.
C25_Witness ==
  /\ stdout[1] = <<>>
  /\ whole = <<49, Ch.nl, 49>>
  /\ buffer = <<49>>

\* C27: the promise of pythonCall is settled by nothing but the close event
\* or the error event of its own child; while the child runs, and after its
\* exit until its streams are read to the end, the promise is pending; a
\* parsed value is returned only after the close event and is the value of
\* the last line of all the output the child wrote.  The worker of the
\* persistent bridge is never involved.
C27_ResolvedAfterClose ==
  /\ [](/\ ophase \in {"running", "exited"} => oresult.st = "pending"
        /\ (oresult.st = "resolved" /\ oresult.resp.kind = "parsed") =>
             /\ ophase = "closed" /\ opipe = <<>> /\ oerrpipe = <<>>
             /\ oresult.resp = CloseResult(ocode, ostdout, ostderr)
        /\ child = 0 /\ NumSpawned = 0)
  /\ [][oresult' # oresult => (OClose \/ OSpawnError)]_vars

\* C27 witness: the child wrote the digit 1 and exited with code 0; after
\* the close event pythonCall has returned the number 1.
C27_Witness ==
  /\ ophase = "closed" /\ ocode = 0
  /\ ostdout = <<49>>
  /\ oresult = [st |-> "resolved",
                resp |-> ParsedResponse([t |-> "number", v |-> <<49>>])]

\* The Response is ok: an object whose member ok is truthy.
IsOk(r) == r.t = "object" /\ Truthy(Get(r, "ok"))

\* The value carries an error text.
CarriesError(r) == r.t = "object" /\ Truthy(Get(r, "error"))

\* C24: usePython().call never throws or rejects.  Whatever value the
\* transport resolves with, the call returns: with an ok Response it returns
\* the payload and stores it in data; with anything else it returns null and
\* sets error to a non-empty string, the error text of the Response when it
\* carries one and 'Unknown error' when it is a value without one.
C24_CallNeverThrows ==
  /\ [](\A k \in HookCalls : hcalls[k].st \in {"idle", "awaiting", "returned"})
  /\ [][\A k \in HookCalls, r \in PythonCallValues :
          HookSettle(k, r) =>
            /\ hcalls'[k].st = "returned"
            /\ hloading' = FALSE
            /\ IF IsOk(r)
               THEN /\ hcalls'[k].ret = Get(r, "data")
                    /\ hdata' = Get(r, "data")
               ELSE /\ hcalls'[k].ret = JSNull
                    /\ herror'.t = "string"
                    /\ herror'.v # <<>>
                    /\ CarriesError(r) => herror' = Get(r, "error")
                    /\ (r.t # "null" /\ ~CarriesError(r)) =>
                         herror' = Str(UnknownError)]_vars

\* An ok Response whose payload was returned and stored, then a non-ok
\* Response without an error text.
C24_Witness ==
  /\ hcalls[1] = [st |-> "returned",
                  result |-> Obj(<< <<"ok", JSTrue>>, <<"data", Num(<<49>>)>> >>),
                  ret |-> Num(<<49>>)]
  /\ hdata = Num(<<49>>)
  /\ hcalls[2] = [st |-> "returned", result |-> Obj(<< <<"ok", JSFalse>> >>),
                  ret |-> JSNull]
  /\ herror = Str(UnknownError)

\* The worker actions that download datasets.
DownloadActions == {"download_paired", "download_mcool_only", "start_download_job"}

\* C28: a launch with --download or --download-all has issued a download
\* action once the process has exited or the interface waits for the
\* operator.
C28_DownloadFlagDownloads ==
  (cphase \in {"ui", "exited"} /\ (flags.download \/ flags.downloadAll)) =>
    \E k \in 1..Len(cinvoked) : cinvoked[k] \in DownloadActions

\* C29: in non-interactive mode exactly one worker action is invoked, chosen
\* by the priority list > report > test > duplicates; with --list it is
\* find_paired when --paired is set, whatever --non-paired is, else
\* find_non_paired when --non-paired is set, else fetch_mcool; App is never
\* rendered.
C29_OneActionByPriority ==
  (IsNonInteractive(flags) /\ cphase # "start") =>
    /\ cphase \in {"awaiting", "exited"}
    /\ cview = "none"
    /\ Len(cinvoked) = 1
    /\ (flags.list /\ flags.paired) => cinvoked[1] = "find_paired"
    /\ (flags.list /\ ~flags.paired /\ flags.nonPaired) =>
         cinvoked[1] = "find_non_paired"
    /\ (flags.list /\ ~flags.paired /\ ~flags.nonPaired) =>
         cinvoked[1] = "fetch_mcool"
    /\ (~flags.list /\ flags.report) => cinvoked[1] = "generate_report"
    /\ (~flags.list /\ ~flags.report /\ flags.test) =>
         cinvoked[1] = "test_download"
    /\ (~flags.list /\ ~flags.report /\ ~flags.test) =>
         cinvoked[1] = "check_duplicates"

\* --list --paired --non-paired together with the three other direct actions:
\* find_paired alone was invoked and the process has exited.
C29_Witness ==
  /\ flags.list /\ flags.report /\ flags.test /\ flags.duplicates
  /\ flags.paired /\ flags.nonPaired
  /\ cphase = "exited"
  /\ cinvoked = <<"find_paired">>
  /\ cview = "none"

\* C30: a non-interactive run never ends with status 1: when it has exited
\* its status is 0 and it has printed one text, the Response pythonCall
\* resolved with, be the Response ok or not.
C30_ExitStatusZero ==
  /\ [](/\ cexit \in {-1, 0}
        /\ (IsNonInteractive(flags) /\ cphase = "exited") =>
             cexit = 0 /\ Len(cprinted) = 1)
  /\ [][\A r \in PythonCallValues :
          CliSettle(r) =>
            /\ cexit' = 0
            /\ cprinted' = <<JSONStringifyPretty(r)>>]_vars

\* The text printed for a spawn failure:
\* {
\*   "ok": false,
\*   "error": "Failed to spawn Python: spawn python3 ENOENT"
\* }
SpawnFailurePrinted ==
  <<123, 10, 32, 32, 34, 111, 107, 34, 58, 32, 102, 97, 108, 115, 101, 44,
    10, 32, 32, 34, 101, 114, 114, 111, 114, 34, 58, 32, 34, 70, 97, 105,
    108, 101, 100, 32, 116, 111, 32, 115, 112, 97, 119, 110, 32, 80, 121,
    116, 104, 111, 110, 58, 32, 115, 112, 97, 119, 110, 32, 112, 121, 116,
    104, 111, 110, 51, 32, 69, 78, 79, 69, 78, 84, 34, 10, 125>>

\* A run with --report whose worker could not be spawned: the non-ok Response
\* was printed and the status is 0.
C30_Witness ==
  /\ flags.report /\ ~flags.list
  /\ cphase = "exited"
  /\ cexit = 0
  /\ cprinted = <<SpawnFailurePrinted>>

\* C31: a stdout line processed while the pending map is empty is discarded.
\* A data event that finds the map empty changes nothing of the bridge but
\* the read buffer, which afterwards holds the unterminated tail only, so no
\* line of the chunk is kept for a call issued later; and the loop body, run
\* on any line with an empty map, leaves the map and every promise as
\* they were.
C31_UnsolicitedDiscarded ==
  /\ [](\A line \in NoiseLines :
          LET st == [pending |-> <<>>, calls |-> calls]
          IN ProcessLine(Front(line), st) = st)
  /\ [][\A g \in Workers : \A n \in 1..Len(stdout[g]) :
          (StdoutData(g, n) /\ pending = <<>>) =>
            /\ pending' = <<>>
            /\ calls' = calls
            /\ nextId' = nextId
            /\ child' = child
            /\ buffer' = Last(Split(buffer \o BufferToString(SubSeq(stdout[g], 1, n))))]_vars

\* The worker answered two calls of action 1 and also wrote the JSON line 2,
\* which answers no request; everything was delivered, and both calls were
\* resolved with 1.
C31_Witness ==
  /\ noise = <<ResponseLine(Request(2))>>
  /\ stdout[1] = <<>>
  /\ buffer = <<>>
  /\ pending = <<>>
  /\ \A i \in 1..2 : /\ calls[i].st = "resolved"
                     /\ calls[i].action = 1
                     /\ calls[i].val = OwnResponse(i)

\* C32: worker generations are isolated.  On a bridge whose workers are
\* replaced only by stop() followed by call(), a call that has been rejected
\* was issued to a worker whose close event has fired: the close event of a
\* stopped worker rejects no call issued to its successor.
C32_GenerationsIsolated ==
  \A i \in Ids :
    calls[i].st = "rejected" => wstate[calls[i].to] = "closed"

\* The values of the lines the workers write: one line per request.
WrittenValues == {JSONParse(Front(ResponseLine(Request(a)))) : a \in Actions}

\* C33: the output of one worker is never mixed with the output of another.
\* With workers that write whole response lines only, every value a call is
\* resolved with is the value of one line one worker wrote, never of a line
\* put together from a fragment of one worker and the output of another.
C33_OutputsNeverMixed ==
  \A i \in Ids : calls[i].st = "resolved" => calls[i].val \in WrittenValues

\* The calls of the hook that have returned after an ok Response.
Succeeded == {k \in HookCalls : hcalls[k].st = "returned" /\ IsOk(hcalls[k].result)}

InFlight == {k \in HookCalls : hcalls[k].st = "awaiting"}

Issued == {k \in HookCalls : hcalls[k].st # "idle"}

MaxOf(S) == CHOOSE k \in S : \A j \in S : j <= k

\* C34: once all the calls issued on one hook instance have completed, data
\* holds the payload of the most recently issued call that succeeded, in
\* whatever order the calls finished.
C34_DataOfLatestIssued ==
  (InFlight = {} /\ Succeeded # {}) =>
    hdata = Get(hcalls[MaxOf(Succeeded)].result, "data")

\* C35: loading is true exactly while a call issued through the hook is in
\* flight; once none is in flight, error is non-null if and only if the most
\* recently issued call failed.
C35_LoadingWhileInFlight ==
  /\ hloading <=> InFlight # {}
  /\ (InFlight = {} /\ Issued # {}) =>
       (herror # JSNull <=> MaxOf(Issued) \notin Succeeded)

\* The interface is displayed.
Rendered == cphase \in {"ui", "fetching"}

\* The parts of C36 that are about the views, the back callbacks and the
\* fetch: the view is one of the eight declared views; an input handled in a
\* child view changes the view to 'menu' or not at all; a launch with --fetch
\* starts in the view 'fetch', and a fetch that ends with a result exits the
\* application after such a launch and returns to 'menu' otherwise.
NavigationRules ==
  /\ [](Rendered => cview \in Views)
  /\ [][\A key \in Keys, top \in BOOLEAN :
          (AppKey(key, top) /\ cview \notin {"menu", "fetch"}) =>
            cview' \in {cview, "menu"}]_vars
  /\ [][(CliDispatch /\ ~IsNonInteractive(flags)) =>
          cview' = IF flags.fetch THEN "fetch" ELSE "menu"]_vars
  /\ [][\A r \in PythonCallValues :
          (FetchDone(r) /\ Truthy(HookBody(r).ret)) =>
            IF flags.fetch THEN cphase' = "exited"
            ELSE cphase' = "ui" /\ cview' = "menu"]_vars

\* C36 as stated: the rules above, and the application exits on q or Ctrl-C
\* only while the view is 'menu'.
C36_AppNavigation ==
  /\ NavigationRules
  /\ [][\A key \in {"q", "ctrl-c"}, top \in BOOLEAN :
          (AppKey(key, top) /\ cphase' = "exited") => cview = "menu"]_vars

\* C36 amended: the rules above, and an input exits the application only if
\* it is Ctrl-C, in whatever view, or q while the view is 'menu', or Escape, q
\* or Enter on the result of the fetch of a launch with --fetch; q in
\* any other view never exits.
C36_AppNavigationAmended ==
  /\ NavigationRules
  /\ [][\A key \in Keys, top \in BOOLEAN :
          (AppKey(key, top) /\ cphase' = "exited") =>
            \/ key = "ctrl-c"
            \/ key = "q" /\ cview = "menu"
            \/ /\ key \in {"escape", "q", "return"}
               /\ cview = "fetch" /\ cphase = "ui" /\ flags.fetch]_vars

\* The application has exited while the view was 'browse', reached from the
\* menu.
C36_Witness ==
  /\ cphase = "exited"
  /\ cview = "browse"
  /\ cinvoked = <<"list_cell_lines">>

\* C37: DownloadJobs keeps at most one polling interval alive: while it is
\* mounted the one interval is the one in pollRef and its callback closes
\* over the current expandedJob; none survives unmount; and a tick issues
\* get_job_status for the expanded job when one is expanded and
\* list_download_jobs otherwise.
C37_OnePollingTimer ==
  /\ [](/\ Cardinality(dtimers) <= 1
        /\ ~dmounted => dtimers = {}
        /\ dmounted => dtimers = {[id |-> dpollRef, job |-> dexpanded]})
  /\ [][\A t \in dtimers :
          JobsTick(t) =>
            dlast' = IF dexpanded # 0
                     THEN [by |-> "tick", action |-> "get_job_status",
                           job |-> dexpanded]
                     ELSE [by |-> "tick", action |-> "list_download_jobs",
                           job |-> 0]]_vars

\* After three earlier intervals (mount, expand, collapse)
\* job 2 is expanded: the fourth interval is the only one alive, and its
\* tick asked for the status of job 2.
C37_Witness ==
  /\ dmounted
  /\ dexpanded = 2
  /\ dcreated = 4
  /\ dtimers = {[id |-> 4, job |-> 2]}
  /\ dlast = [by |-> "tick", action |-> "get_job_status", job |-> 2]

\* C38: in the preview of DownloadManager the index Space adds to or removes
\* from the selection is the index of an existing item of the filtered list,
\* and it is the index of the row that is rendered with the cursor marker.
C38_SpaceTogglesCursorRow ==
  [][ManagerSpace =>
       /\ ToggledIndex \in 0..(FilteredLength - 1)
       /\ mselectedIdx \in 0..(PageRows - 1)
       /\ ToggledIndex = RowAbsIdx(mselectedIdx)]_vars

====
